---- MODULE Spec2Model ----
(***************************************************************************)
(* EveryPoll server: the SQLite store (Users, Polls, Answers, Votes), the  *)
(* DatabaseUtils operations on it, and the poll controllers (createPoll,   *)
(* getPollById with cross-references, voteOnPoll) behind the authenticate  *)
(* and requireAuth middleware.                                             *)
(*                                                                         *)
(* Ids are uuids in the code; here an id is a fresh integer (users, polls, *)
(* answers) drawn from nextId.  Text is a sequence of one-character        *)
(* strings so that trim() is computed, not assumed.                        *)
(***************************************************************************)
EXTENDS Integers, Sequences, FiniteSets, TLC

VARIABLES Users, Polls, Answers, Votes, nextId, last, procs, migrations, files

store == <<Users, Polls, Answers, Votes, nextId>>
vars == <<Users, Polls, Answers, Votes, nextId, last, procs, migrations, files>>

(* ------------------------------ bounds -------------------------------- *)

MaxPolls == 2
MaxUsers == 4
MaxPairs == 2
MaxProcs == 2

(* ------------------------- values of the wire -------------------------- *)

\* A parameter that is not supplied (undefined in JavaScript).
Undefined == -1
\* A parameter supplied with the empty string.
EmptyId == 0
\* An id that names no row ('non-existent-id' in the tests).
NoSuchId == 99
\* A cookie that jwt.verify rejects.
BadToken == -2
\* SQL NULL in a text column (the email and name of an anonymous user).
NullText == "NULL"
\* JavaScript null or undefined where an object is expected (no row found).
Null == [null |-> TRUE]

MinAnswers == 2
MaxAnswers == 10

(* ------------------------------- text ---------------------------------- *)

RECURSIVE TrimStart(_)
TrimStart(s) ==
  IF s # <<>> /\ Head(s) = " " THEN TrimStart(Tail(s)) ELSE s

RECURSIVE TrimEnd(_)
TrimEnd(s) ==
  IF s # <<>> /\ s[Len(s)] = " " THEN TrimEnd(SubSeq(s, 1, Len(s) - 1)) ELSE s

\* String.prototype.trim
Trim(s) == TrimEnd(TrimStart(s))

\* !text.trim()
IsBlank(s) == Trim(s) = <<>>

(* --------------------------- sequence helpers -------------------------- *)

Range(s) == {s[i] : i \in 1..Len(s)}

RECURSIVE SelectRows(_, _)
\* The rows of table t (in rowid order) whose poll_id is p.
SelectRows(t, p) ==
  IF t = <<>> THEN <<>>
  ELSE IF Head(t).poll_id = p THEN <<Head(t)>> \o SelectRows(Tail(t), p)
  ELSE SelectRows(Tail(t), p)

(* ------------------------------ the store ------------------------------ *)

UserIds == {u.id : u \in Users}
PollIds == {p.id : p \in Range(Polls)}
AnswerIds == {a.id : a \in Range(Answers)}

\* DatabaseUtils.getUserById: the row, or Null.
getUserById(id) ==
  IF id \in UserIds THEN CHOOSE u \in Users : u.id = id ELSE Null

\* DatabaseUtils.getPollById: {poll, answers}, or Null.
getPollById(id) ==
  IF id \in PollIds
  THEN [poll |-> CHOOSE p \in Range(Polls) : p.id = id,
        answers |-> SelectRows(Answers, id)]
  ELSE Null

\* DatabaseUtils.getUserVote: the row of (pollId, userId), or Null.
getUserVote(userId, pollId) ==
  IF \E v \in Votes : v.poll_id = pollId /\ v.user_id = userId
  THEN CHOOSE v \in Votes : v.poll_id = pollId /\ v.user_id = userId
  ELSE Null

\* The counts with a key for every answer of the poll, 0 for those without a
\* vote.
VoteCountsWithZeros(votes, pollId) ==
  LET rows == {v \in votes : v.poll_id = pollId}
  IN [a \in {v.answer_id : v \in rows}
            \cup {r.id : r \in Range(SelectRows(Answers, pollId))} |->
        Cardinality({v \in rows : v.answer_id = a})]

\* SELECT answer_id, COUNT(*) FROM Votes WHERE poll_id = ? GROUP BY answer_id
\* on the table votes, as a map whose keys are the answers that have a row.
VoteCounts(votes, pollId) ==
  LET rows == {v \in votes : v.poll_id = pollId}
  IN [a \in {v.answer_id : v \in rows} |->
        Cardinality({v \in rows : v.answer_id = a})]

\* DatabaseUtils.getVoteCounts.
getVoteCounts(pollId) == VoteCounts(Votes, pollId)

\* The join of getCrossReferencedVoteCounts without its answer filter.
CrossJoinAnyAnswer(pollId, crossPollId, crossAnswerId) ==
  {j \in Votes \X Votes :
     /\ j[1].user_id = j[2].user_id
     /\ j[1].poll_id = pollId
     /\ j[2].poll_id = crossPollId}

\* The join that pairs a vote only with another row of the table.
CrossJoinOtherRows(pollId, crossPollId, crossAnswerId) ==
  {j \in Votes \X Votes :
     /\ j[1] # j[2]
     /\ j[1].user_id = j[2].user_id
     /\ j[1].poll_id = pollId
     /\ j[2].poll_id = crossPollId
     /\ j[2].answer_id = crossAnswerId}

\* FROM Votes v1 JOIN Votes v2 ON v1.user_id = v2.user_id WHERE v1.poll_id = ?
\* AND v2.poll_id = ? AND v2.answer_id = ?
CrossJoin(pollId, crossPollId, crossAnswerId) ==
  {j \in Votes \X Votes :
     /\ j[1].user_id = j[2].user_id
     /\ j[1].poll_id = pollId
     /\ j[2].poll_id = crossPollId
     /\ j[2].answer_id = crossAnswerId}

\* DatabaseUtils.getCrossReferencedVoteCounts: the joined rows grouped by
\* v1.answer_id, COUNT(*) each.
getCrossReferencedVoteCounts(pollId, crossPollId, crossAnswerId) ==
  LET rows == CrossJoin(pollId, crossPollId, crossAnswerId)
  IN [a \in {j[1].answer_id : j \in rows} |->
        Cardinality({j \in rows : j[1].answer_id = a})]

(* ----------------------------- createPoll ------------------------------ *)

\* The checks of DatabaseUtils.createPoll that run before any INSERT: the
\* message thrown, or "" when they pass.
CreatePollPrecheck(question, answerTexts) ==
  IF IsBlank(question) THEN "Poll question cannot be empty"
  ELSE IF Len(answerTexts) < MinAnswers THEN "Poll must have at least 2 answers"
  ELSE IF Len(answerTexts) > MaxAnswers THEN "Poll cannot have more than 10 answers"
  ELSE ""

\* The position of the first blank answer text, 0 when there is none.
FirstBlank(answerTexts) ==
  LET blanks == {i \in 1..Len(answerTexts) : IsBlank(answerTexts[i])}
  IN IF blanks = {} THEN 0
     ELSE CHOOSE i \in blanks : \A k \in blanks : i <= k

\* The readings new Date() can give when createPoll runs on the table polls:
\* the millisecond of the latest poll, or a later one.  Only the order of the
\* readings matters, so the first poll is created at 1 and a later reading is
\* the next millisecond.
ClockInputs(polls) ==
  LET latest == CHOOSE t \in {r.created_at : r \in Range(polls)} :
                  \A r \in Range(polls) : r.created_at <= t
  IN IF polls = <<>> THEN {1} ELSE {latest, latest + 1}

\* DatabaseUtils.createPoll on the tables (users, polls, answers) with next the
\* next fresh id and now the reading of the clock: what is thrown ("" when it
\* returns) and the tables after.
\* The Polls row is inserted first; the loop then inserts one Answers row per
\* text and throws at the first blank one, with no transaction around them.
createPoll(users, polls, answers, next, now, authorId, question, answerTexts) ==
  LET pre == CreatePollPrecheck(question, answerTexts)
      b == FirstBlank(answerTexts)
      n == IF b = 0 THEN Len(answerTexts) ELSE b - 1
      poll == [id |-> next, author_id |-> authorId, created_at |-> now,
               question |-> question]
      rows == [i \in 1..n |->
                 [id |-> next + i, poll_id |-> next, text |-> answerTexts[i]]]
  IN IF pre # ""
     THEN [error |-> pre, polls |-> polls, answers |-> answers, next |-> next,
           poll |-> Null, rows |-> <<>>]
     ELSE IF authorId \notin {u.id : u \in users}
     THEN [error |-> "FOREIGN KEY constraint failed", polls |-> polls,
           answers |-> answers, next |-> next, poll |-> Null, rows |-> <<>>]
     ELSE [error |-> IF b = 0 THEN "" ELSE "Answer text cannot be empty",
           polls |-> Append(polls, poll), answers |-> answers \o rows,
           next |-> next + n + 1, poll |-> poll, rows |-> rows]

(* ----------------------------- createVote ------------------------------ *)

\* The FOREIGN KEY clauses of the Votes table (foreign_keys = ON).
VotesForeignKeys(userId, pollId, answerId) ==
  pollId \in PollIds /\ answerId \in AnswerIds /\ userId \in UserIds

\* A Votes table without its UNIQUE clause.
VotesUniqueDropped(userId, pollId) == TRUE

\* UNIQUE(poll_id, user_id) of the Votes table: whether a row of (pollId,
\* userId) may be inserted.
VotesUnique(userId, pollId) ==
  ~ \E v \in Votes : v.poll_id = pollId /\ v.user_id = userId

\* The row createVote inserts.  Its uuid is fresh: the rows of one (poll, user)
\* are numbered.
NewVote(userId, pollId, answerId) ==
  [id |-> <<pollId, userId,
            1 + Cardinality({v \in Votes : v.poll_id = pollId /\ v.user_id = userId})>>,
   poll_id |-> pollId, answer_id |-> answerId, user_id |-> userId]

\* createVote's SELECT: whether the user already has a row for the poll.
CreateVoteSelect(userId, pollId) ==
  \E v \in Votes : v.poll_id = pollId /\ v.user_id = userId

\* createVote's INSERT: whether the constraints let the row in.
CreateVoteInsertOk(userId, pollId, answerId) ==
  VotesForeignKeys(userId, pollId, answerId) /\ VotesUnique(userId, pollId)

\* A createVote that writes over the stored vote of the user on the poll.
createVoteReplace(userId, pollId, answerId) ==
  IF ~ VotesForeignKeys(userId, pollId, answerId)
  THEN [vote |-> Null, votes |-> Votes]
  ELSE [vote |-> NewVote(userId, pollId, answerId),
        votes |-> {v \in Votes : ~ (v.poll_id = pollId /\ v.user_id = userId)}
                    \cup {NewVote(userId, pollId, answerId)}]

\* DatabaseUtils.createVote run without interruption: the vote returned (Null
\* when the SELECT finds a row or the INSERT throws; both are caught) and the
\* Votes table after.
createVote(userId, pollId, answerId) ==
  IF CreateVoteSelect(userId, pollId) \/ ~ CreateVoteInsertOk(userId, pollId, answerId)
  THEN [vote |-> Null, votes |-> Votes]
  ELSE [vote |-> NewVote(userId, pollId, answerId),
        votes |-> Votes \cup {NewVote(userId, pollId, answerId)}]

(* ------------------------- the seeded database ------------------------- *)

Q == <<"Q">>
X == <<"x">>
Y == <<"y">>

\* Two users as two Google logins leave them (createUser(email, name)).
SeedUsers ==
  {[id |-> 1, email |-> "a@example.com", name |-> "A"],
   [id |-> 2, email |-> "b@example.com", name |-> "B"]}

SeedNext == 3

\* The first poll, by user 1, as createPoll leaves the empty tables.
SeedOne == createPoll(SeedUsers, <<>>, <<>>, SeedNext, 1, 1, Q, <<X, Y>>)

\* The second poll, by user 2.
SeedTwo ==
  createPoll(SeedUsers, SeedOne.polls, SeedOne.answers, SeedOne.next, 2, 2, Q,
             <<X, Y>>)

Idle == [pc |-> "idle"]

\* No request is being answered: the server is back in its event loop.
Ready == [op |-> "ready"]

InitEmpty ==
  /\ Users = SeedUsers
  /\ Polls = <<>>
  /\ Answers = <<>>
  /\ Votes = {}
  /\ nextId = SeedNext
  /\ last = Ready
  /\ procs = [i \in 1..MaxProcs |-> Idle]
  /\ migrations = <<>>
  /\ files = {}

InitOnePoll ==
  /\ Users = SeedUsers
  /\ Polls = SeedOne.polls
  /\ Answers = SeedOne.answers
  /\ Votes = {}
  /\ nextId = SeedOne.next
  /\ last = Ready
  /\ procs = [i \in 1..MaxProcs |-> Idle]
  /\ migrations = <<>>
  /\ files = {}

InitSeeded ==
  /\ Users = SeedUsers
  /\ Polls = SeedTwo.polls
  /\ Answers = SeedTwo.answers
  /\ Votes = {}
  /\ nextId = SeedTwo.next
  /\ last = Ready
  /\ procs = [i \in 1..MaxProcs |-> Idle]
  /\ migrations = <<>>
  /\ files = {}

(* ------------------- calls of DatabaseUtils (one process) -------------- *)

(* One server process runs each call and each request handler to its end    *)
(* (better-sqlite3 is synchronous).  last holds the call or request just     *)
(* answered and its result; Deliver hands it over and frees the process.     *)

Deliver ==
  /\ last # Ready
  /\ last' = Ready
  /\ UNCHANGED <<store, procs, migrations, files>>

\* dbUtils.createPoll(authorId, question, answerTexts), as the tests call it.
DbCreatePoll(authorId, question, answerTexts) ==
  \E now \in ClockInputs(Polls) :
    LET r == createPoll(Users, Polls, Answers, nextId, now, authorId, question,
                        answerTexts)
    IN /\ last = Ready
       /\ Len(Polls) < MaxPolls
       /\ Polls' = r.polls
       /\ Answers' = r.answers
       /\ nextId' = r.next
       /\ last' = [op |-> "createPoll", authorId |-> authorId, question |-> question,
                   answerTexts |-> answerTexts, error |-> r.error, poll |-> r.poll,
                   answers |-> r.rows]
       /\ UNCHANGED <<Users, Votes, procs, migrations, files>>

\* dbUtils.createVote(userId, pollId, answerId), as the tests call it.
DbCreateVote(userId, pollId, answerId) ==
  LET r == createVote(userId, pollId, answerId)
  IN /\ last = Ready
     /\ Votes' = r.votes
     /\ last' = [op |-> "createVote", userId |-> userId, pollId |-> pollId,
                 answerId |-> answerId, vote |-> r.vote]
     /\ UNCHANGED <<Users, Polls, Answers, nextId, procs, migrations, files>>

\* dbUtils.getCrossReferencedVoteCounts(pollId, crossPollId, crossAnswerId).
DbCrossCounts(pollId, crossPollId, crossAnswerId) ==
  /\ last = Ready
  /\ last' = [op |-> "getCrossReferencedVoteCounts", pollId |-> pollId,
              crossPollId |-> crossPollId, crossAnswerId |-> crossAnswerId,
              result |-> getCrossReferencedVoteCounts(pollId, crossPollId, crossAnswerId)]
  /\ UNCHANGED <<store, procs, migrations, files>>

IdInputs(ids) == ids \cup {NoSuchId}

NextStore ==
  \/ \E u \in IdInputs(UserIds), p \in IdInputs(PollIds), a \in IdInputs(AnswerIds) :
       DbCreateVote(u, p, a)
  \/ \E b \in IdInputs(PollIds), p \in IdInputs(PollIds), a \in IdInputs(AnswerIds) :
       DbCrossCounts(b, p, a)
  \/ Deliver

\* The store under direct calls of DatabaseUtils, from two polls of two answers.
SpecStore == InitSeeded /\ [][NextStore]_vars

(* ------------------------------ middleware ----------------------------- *)

\* verifyToken and getUserFromToken: the user a cookie names, Null when there
\* is no cookie, jwt.verify rejects it, or its user does not exist.  A token
\* signed for user u is written u.
getUserFromToken(users, token) ==
  IF token \in {Undefined, BadToken} \/ token \notin {u.id : u \in users} THEN Null
  ELSE CHOOSE u \in users : u.id = token

\* The row createAnonymousUser inserts: dbUtils.createUser() with no email.
createAnonymousUser(next) == [id |-> next, email |-> NullText, name |-> NullText]

\* authenticate that takes every user a cookie names for a logged-in one.
authenticateAnyUser(users, next, token) ==
  LET user == getUserFromToken(users, token)
  IN IF user # Null
     THEN [user |-> user, isAuthenticated |-> TRUE, users |-> users, next |-> next]
     ELSE [user |-> createAnonymousUser(next), isAuthenticated |-> FALSE,
           users |-> users \cup {createAnonymousUser(next)}, next |-> next + 1]

\* authenticate, run on the Users table users with next the next fresh id: the
\* user attached to the request, whether it counts as authenticated, and the
\* table and the next fresh id after.
authenticate(users, next, token) ==
  LET user == getUserFromToken(users, token)
  IN IF user # Null
     THEN [user |-> user, isAuthenticated |-> user.email # NullText,
           users |-> users, next |-> next]
     ELSE [user |-> createAnonymousUser(next), isAuthenticated |-> FALSE,
           users |-> users \cup {createAnonymousUser(next)}, next |-> next + 1]

\* The application's authenticate (app.use), run for every request.
AppAuthenticate(token) == authenticate(Users, nextId, token)

\* The authenticate of a POST route of the polls router, run after the
\* application's: a request without a valid cookie gets a second anonymous user.
RouteAuthenticate(token) ==
  authenticate(AppAuthenticate(token).users, AppAuthenticate(token).next, token)

\* requireAuth that asks for a user only, whatever req.isAuthenticated is.
requireAuthUserOnly(auth) == auth.user # Null

\* requireAuth lets the request through.
requireAuth(auth) == auth.isAuthenticated

TokenInputs == UserIds \cup {Undefined, BadToken, NoSuchId}

Unauthorized ==
  [status |-> 401, error |-> "Authentication required"]

(* ------------------------ POST /api/poll (createPoll) ------------------ *)

\* The controller's checks of the body: the 400 error, or "" when they pass.
CreatePollBodyError(body) ==
  IF "question" \notin DOMAIN body \/ IsBlank(body.question) THEN "Missing question"
  ELSE IF "answers" \notin DOMAIN body \/ Len(body.answers) < MinAnswers
  THEN "Invalid answers"
  ELSE IF Len(body.answers) > MaxAnswers THEN "Too many answers"
  ELSE IF FirstBlank(body.answers) # 0 THEN "Empty answer"
  ELSE ""

\* controllers.createPoll for the request of auth with this body, answered when
\* the clock reads now: the response and the tables after.
createPollController(auth, now, body) ==
  LET bad == CreatePollBodyError(body)
      r == createPoll(auth.users, Polls, Answers, auth.next, now, auth.user.id,
                      body.question, body.answers)
      same == [polls |-> Polls, answers |-> Answers, next |-> auth.next]
  IN IF bad # ""
     THEN [resp |-> [status |-> 400, error |-> bad]] @@ same
     ELSE IF ~ auth.isAuthenticated
     THEN [resp |-> Unauthorized] @@ same
     ELSE IF r.error # ""
     THEN [resp |-> [status |-> 500, error |-> r.error],
           polls |-> r.polls, answers |-> r.answers, next |-> r.next]
     ELSE [resp |-> [status |-> 201, error |-> "", poll |-> r.poll, answers |-> r.rows],
           polls |-> r.polls, answers |-> r.answers, next |-> r.next]

\* POST /api/poll: the application's authenticate, then the route's
\* authenticate, requireAuth, createPoll.
HttpCreatePoll(token, body) ==
  \E now \in ClockInputs(Polls) :
    LET auth == RouteAuthenticate(token)
        c == createPollController(auth, now, body)
    IN /\ last = Ready
       /\ Len(Polls) < MaxPolls
       /\ Cardinality(auth.users) <= MaxUsers
       /\ Users' = auth.users
       /\ Votes' = Votes
       /\ UNCHANGED <<migrations, files>>
       /\ procs' = procs
       /\ IF requireAuth(auth)
          THEN /\ Polls' = c.polls
               /\ Answers' = c.answers
               /\ nextId' = c.next
               /\ last' = [op |-> "POST /api/poll", token |-> token, body |-> body,
                           resp |-> c.resp]
          ELSE /\ Polls' = Polls
               /\ Answers' = Answers
               /\ nextId' = auth.next
               /\ last' = [op |-> "POST /api/poll", token |-> token, body |-> body,
                           resp |-> Unauthorized]

(* --------------------- POST /api/poll/:id/vote (voteOnPoll) ------------ *)

\* !value of a request parameter: not supplied, or the empty string.
Falsy(value) == value \in {Undefined, EmptyId}

\* Whether answerId is among the answers getPollById returned.
AnswerBelongsToPoll(pollResult, answerId) ==
  \E a \in Range(pollResult.answers) : a.id = answerId

\* voteOnPoll's checks before it reads the Votes table: the response sent, or
\* Null when the request passes them.
VotePrecheck(auth, pollId, answerId) ==
  IF ~ auth.isAuthenticated THEN Unauthorized
  ELSE IF Falsy(pollId) THEN [status |-> 400, error |-> "Missing poll ID"]
  ELSE IF Falsy(answerId) THEN [status |-> 400, error |-> "Missing answer ID"]
  ELSE IF getPollById(pollId) = Null THEN [status |-> 404, error |-> "Poll not found"]
  ELSE IF ~ AnswerBelongsToPoll(getPollById(pollId), answerId)
  THEN [status |-> 400, error |-> "Invalid answer"]
  ELSE Null

AlreadyVoted(existingVote) ==
  [status |-> 400, error |-> "Already voted",
   vote |-> [answerId |-> existingVote.answer_id]]

VoteFailed == [status |-> 500, error |-> "Vote failed"]

VoteRecorded(vote, voteCounts) ==
  [status |-> 201, error |-> "",
   vote |-> [id |-> vote.id, answerId |-> vote.answer_id, pollId |-> vote.poll_id],
   voteCounts |-> voteCounts]

\* voteOnPoll with the existing-vote check moved before the checks of the poll
\* and the answer.
voteOnPollVoteFirst(auth, pollId, answerId) ==
  LET pre == VotePrecheck(auth, pollId, answerId)
      existingVote == getUserVote(auth.user.id, pollId)
      r == createVote(auth.user.id, pollId, answerId)
  IN IF auth.isAuthenticated /\ existingVote # Null
     THEN [resp |-> AlreadyVoted(existingVote), votes |-> Votes]
     ELSE IF pre # Null THEN [resp |-> pre, votes |-> Votes]
     ELSE IF r.vote = Null THEN [resp |-> VoteFailed, votes |-> Votes]
     ELSE [resp |-> VoteRecorded(r.vote, VoteCounts(r.votes, pollId)),
           votes |-> r.votes]

\* voteOnPoll that lets a second vote take the place of the stored one.
voteOnPollReplace(auth, pollId, answerId) ==
  LET pre == VotePrecheck(auth, pollId, answerId)
      existingVote == getUserVote(auth.user.id, pollId)
      r == createVote(auth.user.id, pollId, answerId)
  IN IF pre # Null THEN [resp |-> pre, votes |-> Votes]
     ELSE IF existingVote # Null
     THEN [resp |-> AlreadyVoted(existingVote),
           votes |-> (Votes \ {existingVote})
                       \cup {[existingVote EXCEPT !.answer_id = answerId]}]
     ELSE IF r.vote = Null THEN [resp |-> VoteFailed, votes |-> Votes]
     ELSE [resp |-> VoteRecorded(r.vote, VoteCounts(r.votes, pollId)),
           votes |-> r.votes]

\* voteOnPoll that reads the counts before it inserts the vote.
voteOnPollStaleCounts(auth, pollId, answerId) ==
  LET pre == VotePrecheck(auth, pollId, answerId)
      existingVote == getUserVote(auth.user.id, pollId)
      r == createVote(auth.user.id, pollId, answerId)
  IN IF pre # Null THEN [resp |-> pre, votes |-> Votes]
     ELSE IF existingVote # Null
     THEN [resp |-> AlreadyVoted(existingVote), votes |-> Votes]
     ELSE IF r.vote = Null THEN [resp |-> VoteFailed, votes |-> Votes]
     ELSE [resp |-> VoteRecorded(r.vote, VoteCounts(Votes, pollId)),
           votes |-> r.votes]

\* controllers.voteOnPoll run without interruption: the response and the Votes
\* table after.
voteOnPoll(auth, pollId, answerId) ==
  LET pre == VotePrecheck(auth, pollId, answerId)
      existingVote == getUserVote(auth.user.id, pollId)
      r == createVote(auth.user.id, pollId, answerId)
  IN IF pre # Null THEN [resp |-> pre, votes |-> Votes]
     ELSE IF existingVote # Null
     THEN [resp |-> AlreadyVoted(existingVote), votes |-> Votes]
     ELSE IF r.vote = Null THEN [resp |-> VoteFailed, votes |-> Votes]
     ELSE [resp |-> VoteRecorded(r.vote, VoteCounts(r.votes, pollId)),
           votes |-> r.votes]

\* POST /api/poll/:id/vote: the application's authenticate, then the route's
\* authenticate, requireAuth, voteOnPoll.
HttpVote(token, pollId, answerId) ==
  LET auth == RouteAuthenticate(token)
      v == voteOnPoll(auth, pollId, answerId)
  IN /\ last = Ready
     /\ Cardinality(auth.users) <= MaxUsers
     /\ Users' = auth.users
     /\ nextId' = auth.next
     /\ UNCHANGED <<Polls, Answers, procs, migrations, files>>
     /\ Votes' = IF requireAuth(auth) THEN v.votes ELSE Votes
     /\ last' = [op |-> "POST /api/poll/:id/vote", token |-> token,
                 pollId |-> pollId, answerId |-> answerId,
                 resp |-> IF requireAuth(auth) THEN v.resp ELSE Unauthorized]

AnswerIdInputs == AnswerIds \cup {Undefined, EmptyId, NoSuchId}

NextVote ==
  \/ \E t \in TokenInputs, p \in IdInputs(PollIds), a \in AnswerIdInputs :
       HttpVote(t, p, a)
  \/ Deliver

\* Vote requests answered one at a time, from two polls of two answers.
SpecVote == InitSeeded /\ [][NextVote]_vars

(* ----------------------- GET /api/poll/:id (getPollById) --------------- *)

(* The query string is the sequence of its reference pairs in the order their  *)
(* pk keys occur: q[k].p is the value of pk (Undefined when only ak is given,  *)
(* so that no key matches /^p\d+$/) and q[k].a the value of the ak of the same *)
(* number (Undefined when it is not given).                                    *)

InvalidCrossReference(message) ==
  [status |-> 400, error |-> "Invalid cross-reference", message |-> message]

\* The entry pushed for a valid pair.
CrossReferenceEntry(id, crossPoll, crossAnswerId) ==
  LET crossAnswer == CHOOSE a \in Range(crossPoll.answers) : a.id = crossAnswerId
  IN [pollId |-> crossPoll.poll.id, answerId |-> crossAnswerId,
      poll |-> [id |-> crossPoll.poll.id, question |-> crossPoll.poll.question],
      answer |-> [id |-> crossAnswer.id, text |-> crossAnswer.text],
      voteCounts |-> getCrossReferencedVoteCounts(id, crossPoll.poll.id, crossAnswerId)]

\* The loop with the test for a missing half removed: an absent answer id is
\* validated like any other.
RECURSIVE CrossReferencesStrict(_, _)
CrossReferencesStrict(id, q) ==
  IF q = <<>> THEN [error |-> Null, list |-> <<>>]
  ELSE LET crossPollId == Head(q).p
           crossAnswerId == Head(q).a
           crossPoll == getPollById(crossPollId)
           rest == CrossReferencesStrict(id, Tail(q))
       IN IF crossPollId = Undefined THEN rest
          ELSE IF crossPoll = Null
          THEN [error |-> InvalidCrossReference("poll not found"), list |-> <<>>]
          ELSE IF ~ AnswerBelongsToPoll(crossPoll, crossAnswerId)
          THEN [error |-> InvalidCrossReference("answer does not belong to poll"),
                list |-> <<>>]
          ELSE IF rest.error # Null THEN rest
          ELSE [error |-> Null,
                list |-> <<CrossReferenceEntry(id, crossPoll, crossAnswerId)>> \o rest.list]

\* The loop that intersects the cohorts: each entry's counts are cut down to the
\* answers the entries before it counted.
RECURSIVE CrossReferencesChained(_, _)
CrossReferencesChained(id, q) ==
  IF q = <<>> THEN [error |-> Null, list |-> <<>>]
  ELSE LET n == Len(q)
           crossPollId == q[n].p
           crossAnswerId == q[n].a
           crossPoll == getPollById(crossPollId)
           before == CrossReferencesChained(id, SubSeq(q, 1, n - 1))
           entry == CrossReferenceEntry(id, crossPoll, crossAnswerId)
           seen == IF before.list = <<>> THEN DOMAIN entry.voteCounts
                   ELSE DOMAIN before.list[Len(before.list)].voteCounts
       IN IF before.error # Null THEN before
          ELSE IF crossPollId = Undefined \/ Falsy(crossPollId) \/ Falsy(crossAnswerId)
          THEN before
          ELSE IF crossPoll = Null
          THEN [error |-> InvalidCrossReference("poll not found"), list |-> <<>>]
          ELSE IF ~ AnswerBelongsToPoll(crossPoll, crossAnswerId)
          THEN [error |-> InvalidCrossReference("answer does not belong to poll"),
                list |-> <<>>]
          ELSE [error |-> Null,
                list |-> Append(before.list,
                   [entry EXCEPT !.voteCounts =
                      [a \in DOMAIN entry.voteCounts \cap seen |-> entry.voteCounts[a]]])]

\* The loop that passes over a pair failing validation instead of ending the
\* request with an error.
RECURSIVE CrossReferencesLenient(_, _)
CrossReferencesLenient(id, q) ==
  IF q = <<>> THEN [error |-> Null, list |-> <<>>]
  ELSE LET crossPollId == Head(q).p
           crossAnswerId == Head(q).a
           crossPoll == getPollById(crossPollId)
           rest == CrossReferencesLenient(id, Tail(q))
       IN IF crossPollId = Undefined THEN rest
          ELSE IF Falsy(crossPollId) \/ Falsy(crossAnswerId) THEN rest
          ELSE IF crossPoll = Null THEN rest
          ELSE IF ~ AnswerBelongsToPoll(crossPoll, crossAnswerId) THEN rest
          ELSE [error |-> Null,
                list |-> <<CrossReferenceEntry(id, crossPoll, crossAnswerId)>> \o rest.list]

\* The loop that puts each entry in front of the list (unshift for push): the
\* entries come out in the reverse of the order of the pk keys.
RECURSIVE CrossReferencesUnshifted(_, _)
CrossReferencesUnshifted(id, q) ==
  IF q = <<>> THEN [error |-> Null, list |-> <<>>]
  ELSE LET crossPollId == Head(q).p
           crossAnswerId == Head(q).a
           crossPoll == getPollById(crossPollId)
           rest == CrossReferencesUnshifted(id, Tail(q))
       IN IF crossPollId = Undefined THEN rest
          ELSE IF Falsy(crossPollId) \/ Falsy(crossAnswerId) THEN rest
          ELSE IF crossPoll = Null
          THEN [error |-> InvalidCrossReference("poll not found"), list |-> <<>>]
          ELSE IF ~ AnswerBelongsToPoll(crossPoll, crossAnswerId)
          THEN [error |-> InvalidCrossReference("answer does not belong to poll"),
                list |-> <<>>]
          ELSE IF rest.error # Null THEN rest
          ELSE [error |-> Null,
                list |-> rest.list \o <<CrossReferenceEntry(id, crossPoll, crossAnswerId)>>]

\* The for loop of getPollById over the pk keys of the query, for base poll id:
\* the error response of the first pair that fails validation (Null when none
\* does) and the entries pushed.  A pair that fails ends the request, so the
\* pairs after it are not looked at.
RECURSIVE CrossReferences(_, _)
CrossReferences(id, q) ==
  IF q = <<>> THEN [error |-> Null, list |-> <<>>]
  ELSE LET crossPollId == Head(q).p
           crossAnswerId == Head(q).a
           crossPoll == getPollById(crossPollId)
           rest == CrossReferences(id, Tail(q))
       IN IF crossPollId = Undefined THEN rest
          ELSE IF Falsy(crossPollId) \/ Falsy(crossAnswerId) THEN rest
          ELSE IF crossPoll = Null
          THEN [error |-> InvalidCrossReference("poll not found"), list |-> <<>>]
          ELSE IF ~ AnswerBelongsToPoll(crossPoll, crossAnswerId)
          THEN [error |-> InvalidCrossReference("answer does not belong to poll"),
                list |-> <<>>]
          ELSE IF rest.error # Null THEN rest
          ELSE [error |-> Null,
                list |-> <<CrossReferenceEntry(id, crossPoll, crossAnswerId)>> \o rest.list]

\* res.json of getPollById with an empty crossReferences list written out
\* instead of left undefined.
PollDetailAlwaysListed(pollResult, author, voteCounts, userVote, crossReferences) ==
  [status |-> 200, error |-> "", poll |-> pollResult.poll,
   answers |-> pollResult.answers,
   author |-> IF author = Null THEN [id |-> Undefined, name |-> NullText]
              ELSE [id |-> author.id, name |-> author.name],
   voteCounts |-> voteCounts,
   userVote |-> IF userVote = Null THEN Null ELSE [answerId |-> userVote.answer_id],
   crossReferences |-> crossReferences]

\* res.json of getPollById: crossReferences is undefined, and so left out of the
\* document, when the list is empty.
PollDetail(pollResult, author, voteCounts, userVote, crossReferences) ==
  LET base == [status |-> 200, error |-> "", poll |-> pollResult.poll,
               answers |-> pollResult.answers,
               author |-> IF author = Null THEN [id |-> Undefined, name |-> NullText]
                          ELSE [id |-> author.id, name |-> author.name],
               voteCounts |-> voteCounts,
               userVote |-> IF userVote = Null THEN Null
                            ELSE [answerId |-> userVote.answer_id]]
  IN IF Len(crossReferences) > 0
     THEN base @@ [crossReferences |-> crossReferences]
     ELSE base

\* controllers.getPollById for the request of user (req.user) for poll id with
\* query q: the response.
getPollByIdController(user, id, q) ==
  LET pollResult == getPollById(id)
      x == CrossReferences(id, q)
  IN IF Falsy(id) THEN [status |-> 400, error |-> "Missing poll ID"]
     ELSE IF pollResult = Null THEN [status |-> 404, error |-> "Poll not found"]
     ELSE IF x.error # Null THEN x.error
     ELSE PollDetail(pollResult, getUserById(pollResult.poll.author_id),
                     getVoteCounts(id),
                     IF user = Null THEN Null ELSE getUserVote(user.id, id),
                     x.list)

\* GET /api/poll/:id: the application's authenticate, then getPollById.
HttpGetPoll(token, id, q) ==
  LET auth == AppAuthenticate(token)
  IN /\ last = Ready
     /\ Cardinality(auth.users) <= MaxUsers
     /\ Users' = auth.users
     /\ nextId' = auth.next
     /\ UNCHANGED <<Polls, Answers, Votes, procs, migrations, files>>
     /\ last' = [op |-> "GET /api/poll/:id", token |-> token, id |-> id, query |-> q,
                 resp |-> getPollByIdController(auth.user, id, q)]

\* The values tried for one half of a pair: not given, empty, naming nothing,
\* and the ids of the table.
HalfInputs(ids) == ids \cup {Undefined, EmptyId, NoSuchId}

PairInputs ==
  {[p |-> p, a |-> a] : p \in HalfInputs(PollIds), a \in HalfInputs(AnswerIds)}

RECURSIVE QueriesOfLength(_)
QueriesOfLength(n) ==
  IF n = 0 THEN {<<>>}
  ELSE {Append(q, x) : q \in QueriesOfLength(n - 1), x \in PairInputs}

QueryInputs == UNION {QueriesOfLength(n) : n \in 0..MaxPairs}

NextDetail ==
  \/ \E t \in UserIds, p \in PollIds, a \in AnswerIds : HttpVote(t, p, a)
  \/ /\ last = Ready
     /\ \E id \in IdInputs(PollIds), q \in QueryInputs : HttpGetPoll(1, id, q)
  \/ Deliver

\* Poll-detail requests with reference pairs, answered one at a time between
\* vote requests, from two polls of two answers.
SpecDetail == InitSeeded /\ [][NextDetail]_vars

(* ------------- vote requests of several server processes -------------- *)

(* Several server processes share the database file.  Each runs its handler  *)
(* alone, but their SQL statements interleave: procs[i] is the position of   *)
(* process i in voteOnPoll (kind "http") or in a bare createVote call (kind  *)
(* "direct"), one step per statement.                                        *)

\* console.error of createVote's catch block, by the statement that threw.
SelectThrown == "User has already voted for this poll"
UniqueThrown == "UNIQUE constraint failed: Votes.poll_id, Votes.user_id"
ForeignKeyThrown == "FOREIGN KEY constraint failed"

\* Process i takes a vote request: authenticate, requireAuth and voteOnPoll up
\* to its check of the answer.
RaceStart(i, token, pollId, answerId) ==
  LET auth == RouteAuthenticate(token)
      pre == VotePrecheck(auth, pollId, answerId)
      req == [kind |-> "http", userId |-> auth.user.id, pollId |-> pollId,
              answerId |-> answerId]
  IN /\ procs[i].pc = "idle"
     /\ Cardinality(auth.users) <= MaxUsers
     /\ Users' = auth.users
     /\ nextId' = auth.next
     /\ UNCHANGED <<migrations, files>>
     /\ procs' = [procs EXCEPT ![i] =
                    IF pre # Null
                    THEN req @@ [pc |-> "done", resp |-> pre]
                    ELSE req @@ [pc |-> "getUserVote"]]
     /\ UNCHANGED <<Polls, Answers, Votes, last>>

\* Process i calls dbUtils.createVote outside any request.
RaceStartDirect(i, userId, pollId, answerId) ==
  /\ procs[i].pc = "idle"
  /\ UNCHANGED <<migrations, files>>
  /\ procs' = [procs EXCEPT ![i] =
                 [kind |-> "direct", userId |-> userId, pollId |-> pollId,
                  answerId |-> answerId, pc |-> "select"]]
  /\ UNCHANGED <<store, last>>

\* voteOnPoll's getUserVote and its 'Already voted' answer.
RaceGetUserVote(i) ==
  LET me == procs[i]
      existingVote == getUserVote(me.userId, me.pollId)
  IN /\ me.pc = "getUserVote"
     /\ UNCHANGED <<migrations, files>>
     /\ procs' = [procs EXCEPT ![i] =
                    IF existingVote # Null
                    THEN [me EXCEPT !.pc = "done"] @@ [resp |-> AlreadyVoted(existingVote)]
                    ELSE [me EXCEPT !.pc = "select"]]
     /\ UNCHANGED <<store, last>>

\* What the caller of createVote does with its result: voteOnPoll answers
\* 'Vote failed' on null and goes on to getVoteCounts otherwise.
AfterCreateVote(me, vote, thrown) ==
  IF vote = Null
  THEN [kind |-> me.kind, userId |-> me.userId, pollId |-> me.pollId,
        answerId |-> me.answerId, pc |-> "done", vote |-> Null, thrown |-> thrown,
        resp |-> IF me.kind = "http" THEN VoteFailed ELSE Null]
  ELSE [kind |-> me.kind, userId |-> me.userId, pollId |-> me.pollId,
        answerId |-> me.answerId, vote |-> vote,
        pc |-> IF me.kind = "http" THEN "counts" ELSE "done"]

\* createVote's SELECT; a row found throws, and the catch returns null.
RaceSelect(i) ==
  LET me == procs[i]
  IN /\ me.pc = "select"
     /\ UNCHANGED <<migrations, files>>
     /\ procs' = [procs EXCEPT ![i] =
                    IF CreateVoteSelect(me.userId, me.pollId)
                    THEN AfterCreateVote(me, Null, SelectThrown)
                    ELSE [me EXCEPT !.pc = "insert"]]
     /\ UNCHANGED <<store, last>>

\* createVote's INSERT; a constraint that fails throws, and the catch returns null.
RaceInsert(i) ==
  LET me == procs[i]
      vote == NewVote(me.userId, me.pollId, me.answerId)
  IN /\ me.pc = "insert"
     /\ IF CreateVoteInsertOk(me.userId, me.pollId, me.answerId)
        THEN /\ Votes' = Votes \cup {vote}
             /\ UNCHANGED <<migrations, files>>
             /\ procs' = [procs EXCEPT ![i] = AfterCreateVote(me, vote, "")]
        ELSE /\ Votes' = Votes
             /\ UNCHANGED <<migrations, files>>
             /\ procs' = [procs EXCEPT ![i] =
                            AfterCreateVote(me, Null,
                              IF VotesForeignKeys(me.userId, me.pollId, me.answerId)
                              THEN UniqueThrown ELSE ForeignKeyThrown)]
     /\ UNCHANGED <<Users, Polls, Answers, nextId, last>>

\* voteOnPoll's getVoteCounts and its 201 answer.
RaceCounts(i) ==
  LET me == procs[i]
  IN /\ me.pc = "counts"
     /\ UNCHANGED <<migrations, files>>
     /\ procs' = [procs EXCEPT ![i] =
                    [me EXCEPT !.pc = "done"]
                      @@ [resp |-> VoteRecorded(me.vote, getVoteCounts(me.pollId))]]
     /\ UNCHANGED <<store, last>>

NextRace ==
  \E i \in 1..MaxProcs :
    \/ \E t \in UserIds, p \in PollIds, a \in IdInputs(AnswerIds) : RaceStart(i, t, p, a)
    \/ \E u \in UserIds, p \in PollIds, a \in IdInputs(AnswerIds) :
         RaceStartDirect(i, u, p, a)
    \/ RaceGetUserVote(i)
    \/ RaceSelect(i)
    \/ RaceInsert(i)
    \/ RaceCounts(i)

\* Concurrent votes on one poll of two answers, each process taking one request.
SpecRace == InitOnePoll /\ [][NextRace]_vars

(* ------------ a poll-detail request among vote requests --------------- *)

(* getPollById reads the Votes table once for voteCounts and once more for    *)
(* each reference pair, each read a statement of its own outside any          *)
(* transaction.  procs[i] is the position of process i in the handler; the    *)
(* vote requests of the other server processes on the same database file are  *)
(* answered whole (HttpVote) between its statements.                          *)

\* Process i takes GET /api/poll/:id: the application's authenticate, then
\* getPollById up to its reading of the author.
DetailStart(i, token, id, q) ==
  LET auth == AppAuthenticate(token)
      req == [kind |-> "detail", user |-> auth.user, id |-> id, query |-> q]
  IN /\ procs[i].pc = "idle"
     /\ Cardinality(auth.users) <= MaxUsers
     /\ Users' = auth.users
     /\ nextId' = auth.next
     /\ UNCHANGED <<migrations, files>>
     /\ procs' = [procs EXCEPT ![i] =
                    IF Falsy(id)
                    THEN req @@ [pc |-> "done",
                                 resp |-> [status |-> 400, error |-> "Missing poll ID"]]
                    ELSE IF getPollById(id) = Null
                    THEN req @@ [pc |-> "done",
                                 resp |-> [status |-> 404, error |-> "Poll not found"]]
                    ELSE req @@ [pc |-> "getVoteCounts"]]
     /\ UNCHANGED <<Polls, Answers, Votes, last>>

\* const voteCounts = dbUtils.getVoteCounts(id).
DetailGetVoteCounts(i) ==
  LET me == procs[i]
  IN /\ me.pc = "getVoteCounts"
     /\ UNCHANGED <<migrations, files>>
     /\ procs' = [procs EXCEPT ![i] =
                    [me EXCEPT !.pc = "getUserVote"]
                      @@ [voteCounts |-> getVoteCounts(me.id)]]
     /\ UNCHANGED <<store, last>>

\* The handler from position k of the pk keys on, with the entries pushed so
\* far: the next pair to look at, or res.json when none is left.  The rows of
\* Polls, Answers and Users it has read never change.
DetailContinue(me, userVote, k, list) ==
  LET pollResult == getPollById(me.id)
      request == [kind |-> me.kind, user |-> me.user, id |-> me.id,
                  query |-> me.query, voteCounts |-> me.voteCounts]
  IN IF k <= Len(me.query)
     THEN request @@ [pc |-> "pair", userVote |-> userVote, k |-> k, list |-> list]
     ELSE request @@ [pc |-> "done",
                      resp |-> PollDetail(pollResult,
                                          getUserById(pollResult.poll.author_id),
                                          me.voteCounts, userVote, list)]

\* userVote = dbUtils.getUserVote(req.user.id, id), then the start of the loop.
DetailGetUserVote(i) ==
  LET me == procs[i]
      userVote == IF me.user = Null THEN Null ELSE getUserVote(me.user.id, me.id)
  IN /\ me.pc = "getUserVote"
     /\ UNCHANGED <<migrations, files>>
     /\ procs' = [procs EXCEPT ![i] = DetailContinue(me, userVote, 1, <<>>)]
     /\ UNCHANGED <<store, last>>

\* One turn of the loop over the pk keys: the pair is passed over, ends the
\* request with 400, or has its counts read and its entry pushed.
DetailPair(i) ==
  LET me == procs[i]
      x == CrossReferences(me.id, <<me.query[me.k]>>)
  IN /\ me.pc = "pair"
     /\ UNCHANGED <<migrations, files>>
     /\ procs' = [procs EXCEPT ![i] =
                    IF x.error # Null
                    THEN [kind |-> me.kind, user |-> me.user, id |-> me.id,
                          query |-> me.query, pc |-> "done", resp |-> x.error]
                    ELSE DetailContinue(me, me.userVote, me.k + 1, me.list \o x.list)]
     /\ UNCHANGED <<store, last>>

\* The reference pairs of the requests read here: the first answer of a poll,
\* and a poll that does not exist.
DetailPairInputs ==
  {[p |-> p, a |-> getPollById(p).answers[1].id] : p \in PollIds}
    \cup {[p |-> NoSuchId, a |-> NoSuchId]}

RECURSIVE DetailQueriesOfLength(_)
DetailQueriesOfLength(n) ==
  IF n = 0 THEN {<<>>}
  ELSE {Append(q, x) : q \in DetailQueriesOfLength(n - 1), x \in DetailPairInputs}

DetailQueryInputs == UNION {DetailQueriesOfLength(n) : n \in 0..MaxPairs}

NextDetailRace ==
  \/ /\ last = Ready
     /\ \E t \in UserIds, p \in PollIds :
          \E a \in {r.id : r \in Range(getPollById(p).answers)} : HttpVote(t, p, a)
  \/ Deliver
  \/ /\ procs[1].pc = "idle"
     /\ \E id \in IdInputs(PollIds), q \in DetailQueryInputs : DetailStart(1, 1, id, q)
  \/ DetailGetVoteCounts(1)
  \/ DetailGetUserVote(1)
  \/ DetailPair(1)

\* One poll-detail request of user 1, answered by process 1 statement by
\* statement while the vote requests of the other processes are answered, from
\* two polls of two answers.
SpecDetailRace == InitSeeded /\ [][NextDetailRace]_vars

(* --------------------------- inputs of SpecPoll ------------------------ *)

Blank == <<" ">>

QuestionInputs == {<<>>, Blank, Q, <<" ", "Q", " ">>}

\* The answer counts tried: around both limits of the code.
SizeInputs ==
  {0, 1, MinAnswers, MinAnswers + 1, MaxAnswers, MaxAnswers + 1}

\* n answer texts, blank at position b (none when b = 0).
AnswerList(n, b) == [i \in 1..n |-> IF i = b THEN Blank ELSE X]

\* Lists with no blank text, or one at the first, second, tenth or eleventh position.
AnswerListInputs ==
  {AnswerList(n, b) : n \in SizeInputs, b \in {0, 1, 2, MaxAnswers, MaxAnswers + 1}}

BodyInputs ==
  {[question |-> q, answers |-> l] : q \in QuestionInputs, l \in AnswerListInputs}
    \cup {[answers |-> l] : l \in AnswerListInputs}
    \cup {[question |-> q] : q \in QuestionInputs}

NextPoll ==
  \/ /\ last = Ready
     /\ \E u \in IdInputs(UserIds), q \in QuestionInputs, l \in AnswerListInputs :
          DbCreatePoll(u, q, l)
  \/ /\ last = Ready
     /\ \E t \in TokenInputs, b \in BodyInputs : HttpCreatePoll(t, b)
  \/ Deliver

\* Poll creation, by direct calls of dbUtils.createPoll and by POST /api/poll.
SpecPoll == InitEmpty /\ [][NextPoll]_vars

(* ------------------------- reads of the store -------------------------- *)

\* A getVoteCounts that clears the poll's votes once it has counted them.
DbGetVoteCountsConsuming(pollId) ==
  /\ last = Ready
  /\ last' = [op |-> "getVoteCounts", pollId |-> pollId,
              result |-> getVoteCounts(pollId)]
  /\ Votes' = {v \in Votes : v.poll_id # pollId}
  /\ UNCHANGED <<Users, Polls, Answers, nextId, procs, migrations, files>>

\* dbUtils.getVoteCounts(pollId).
DbGetVoteCounts(pollId) ==
  /\ last = Ready
  /\ last' = [op |-> "getVoteCounts", pollId |-> pollId,
              result |-> getVoteCounts(pollId)]
  /\ UNCHANGED <<store, procs, migrations, files>>

\* dbUtils.getUserVote(userId, pollId).
DbGetUserVote(userId, pollId) ==
  /\ last = Ready
  /\ last' = [op |-> "getUserVote", userId |-> userId, pollId |-> pollId,
              result |-> getUserVote(userId, pollId)]
  /\ UNCHANGED <<store, procs, migrations, files>>

NextReads ==
  \/ /\ last = Ready
     /\ \E u \in IdInputs(UserIds), p \in IdInputs(PollIds), a \in IdInputs(AnswerIds) :
          DbCreateVote(u, p, a)
  \/ /\ last = Ready
     /\ \E p \in IdInputs(PollIds) : DbGetVoteCounts(p)
  \/ /\ last = Ready
     /\ \E u \in IdInputs(UserIds), p \in IdInputs(PollIds) : DbGetUserVote(u, p)
  \/ /\ last = Ready
     /\ \E b \in IdInputs(PollIds), p \in IdInputs(PollIds), a \in IdInputs(AnswerIds) :
          DbCrossCounts(b, p, a)
  \/ Deliver

\* Direct calls of createVote and of the three reads of the Votes table, from
\* two polls of two answers.
SpecReads == InitSeeded /\ [][NextReads]_vars

(* --------------------- write requests of any identity ------------------ *)

\* Bodies of POST /api/poll: one the controller accepts, one with too few
\* answers, one without a question.
WriteBodyInputs ==
  {[question |-> Q, answers |-> <<X, Y>>],
   [question |-> Q, answers |-> <<X>>],
   [answers |-> <<X, Y>>]}

NextWrite ==
  \/ /\ last = Ready
     /\ \E t \in TokenInputs, b \in WriteBodyInputs : HttpCreatePoll(t, b)
  \/ /\ last = Ready
     /\ \E t \in TokenInputs, p \in IdInputs(PollIds), a \in AnswerIdInputs :
          HttpVote(t, p, a)
  \/ Deliver

\* Poll-creation and vote requests with every kind of cookie, answered one at
\* a time, from one poll.
SpecWrite == InitOnePoll /\ [][NextWrite]_vars

(* ----------------------------- poll listings --------------------------- *)

(* A query string is a record with a field for each parameter that is given;   *)
(* limit, offset and q are texts, sort is a word, exclude is the sequence of   *)
(* the values of the pk parameters in the order of their keys.                 *)

DefaultLimit == 10
DefaultOffset == 0
MinLimit == 1
MaxLimit == 50

Digits == <<"0", "1", "2", "3", "4", "5", "6", "7", "8", "9">>

IsDigit(c) == \E i \in 1..Len(Digits) : Digits[i] = c

DigitValue(c) == (CHOOSE i \in 1..Len(Digits) : Digits[i] = c) - 1

\* The value of the digits s starts with, after the digits of value acc.
RECURSIVE DigitsValue(_, _)
DigitsValue(s, acc) ==
  IF s = <<>> \/ ~ IsDigit(Head(s)) THEN acc
  ELSE DigitsValue(Tail(s), 10 * acc + DigitValue(Head(s)))

NaN == [nan |-> TRUE]

Number(n) == [nan |-> FALSE, value |-> n]

\* parseInt(s, 10): white space is skipped, then a sign is read, then digits as
\* far as they go; what follows the digits is ignored, and NaN is the result
\* only when there is no digit to read.
parseInt(s) ==
  LET t == TrimStart(s)
      signed == t # <<>> /\ Head(t) \in {"-", "+"}
      d == IF signed THEN Tail(t) ELSE t
  IN IF d = <<>> \/ ~ IsDigit(Head(d)) THEN NaN
     ELSE IF signed /\ Head(t) = "-" THEN Number(0 - DigitsValue(d, 0))
     ELSE Number(DigitsValue(d, 0))

\* The letters the texts of the model are written with, in both cases.
UpperCase == <<"Q", "X", "Y", "Z">>
LowerCase == <<"q", "x", "y", "z">>

\* SQLite's LIKE folds the case of ASCII letters.
Fold(c) ==
  IF \E i \in 1..Len(UpperCase) : UpperCase[i] = c
  THEN LowerCase[CHOOSE i \in 1..Len(UpperCase) : UpperCase[i] = c]
  ELSE c

\* text LIKE pattern: % stands for any text, _ for any one character.
RECURSIVE Like(_, _)
Like(pattern, text) ==
  IF pattern = <<>> THEN text = <<>>
  ELSE IF Head(pattern) = "%"
  THEN Like(Tail(pattern), text) \/ (text # <<>> /\ Like(pattern, Tail(text)))
  ELSE /\ text # <<>>
       /\ Head(pattern) = "_" \/ Fold(Head(pattern)) = Fold(Head(text))
       /\ Like(Tail(pattern), Tail(text))

\* question LIKE ? with the parameter `%${query}%`.
QuestionLike(question, query) == Like(<<"%">> \o query \o <<"%">>, question)

\* Whether a text option is given and truthy (if (query)).
Given(options, name) == name \in DOMAIN options /\ options[name] # <<>>

\* Whether an id option is given and truthy (if (authorId)).
GivenId(options, name) == name \in DOMAIN options /\ ~ Falsy(options[name])

\* The rows of the table rows whose created_at is in times, those of the
\* earliest (ASC) or latest (DESC) time first, those of one time in the order of
\* the table.
RECURSIVE SortByTime(_, _, _)
SortByTime(rows, times, order) ==
  IF times = {} THEN <<>>
  ELSE LET t == CHOOSE x \in times :
                  \A y \in times : IF order = "ASC" THEN x <= y ELSE x >= y
       IN SelectSeq(rows, LAMBDA r : r.created_at = t)
            \o SortByTime(rows, times \ {t}, order)

\* ORDER BY created_at that takes ASC for DESC and DESC for ASC.
OrderByCreatedAtSwapped(rows, order) ==
  SortByTime(rows, {r.created_at : r \in Range(rows)},
             IF order = "ASC" THEN "DESC" ELSE "ASC")

\* ORDER BY created_at ASC or DESC of rows scanned in the order of their
\* insertion (the rowid).  The statement has a LIMIT, so SQLite sorts in an
\* index keyed by created_at and then by the position in the scan: polls of one
\* millisecond come out in the order of their insertion, in both directions.
OrderByCreatedAt(rows, order) ==
  SortByTime(rows, {r.created_at : r \in Range(rows)}, order)

\* LIMIT limit OFFSET offset that counts the offset from the first row as 1.
LimitOffsetFromOne(rows, limit, offset) ==
  SubSeq(rows, IF offset = 0 THEN 1 ELSE offset,
         IF offset + limit < Len(rows) THEN offset + limit ELSE Len(rows))

\* LIMIT limit OFFSET offset.
LimitOffset(rows, limit, offset) ==
  SubSeq(rows, offset + 1,
         IF offset + limit < Len(rows) THEN offset + limit ELSE Len(rows))

\* The rows of a listing with the answers of each.
WithAnswers(rows) ==
  [i \in 1..Len(rows) |-> [poll |-> rows[i], answers |-> SelectRows(Answers, rows[i].id)]]

\* DatabaseUtils.getPolls(options).
getPolls(options) ==
  LET limit == IF "limit" \in DOMAIN options THEN options.limit ELSE DefaultLimit
      offset == IF "offset" \in DOMAIN options THEN options.offset ELSE DefaultOffset
      sortBy == IF "sortBy" \in DOMAIN options THEN options.sortBy ELSE "newest"
      Where(row) ==
        /\ Given(options, "query") => QuestionLike(row.question, options.query)
        /\ GivenId(options, "authorId") => row.author_id = options.authorId
      rows == SelectSeq(Polls, Where)
      order == IF sortBy = "oldest" THEN "ASC" ELSE "DESC"
  IN [polls |-> WithAnswers(LimitOffset(OrderByCreatedAt(rows, order), limit, offset)),
      totalCount |-> Len(rows)]

\* getCrossReferenceCandidates that leaves out the polls of the list but not
\* the main poll.
getCrossReferenceCandidatesKeepMain(mainPollId, options) ==
  LET limit == IF "limit" \in DOMAIN options THEN options.limit ELSE DefaultLimit
      offset == IF "offset" \in DOMAIN options THEN options.offset ELSE DefaultOffset
      excludePollIds ==
        IF "excludePollIds" \in DOMAIN options THEN options.excludePollIds ELSE <<>>
      allExcludedIds == Range(excludePollIds)
      Where(row) ==
        /\ row.id \notin allExcludedIds
        /\ Given(options, "query") => QuestionLike(row.question, options.query)
      rows == SelectSeq(Polls, Where)
  IN [polls |-> WithAnswers(LimitOffset(OrderByCreatedAt(rows, "DESC"), limit, offset)),
      totalCount |-> Len(rows)]

\* DatabaseUtils.getCrossReferenceCandidates(mainPollId, options).
getCrossReferenceCandidates(mainPollId, options) ==
  LET limit == IF "limit" \in DOMAIN options THEN options.limit ELSE DefaultLimit
      offset == IF "offset" \in DOMAIN options THEN options.offset ELSE DefaultOffset
      excludePollIds ==
        IF "excludePollIds" \in DOMAIN options THEN options.excludePollIds ELSE <<>>
      allExcludedIds == Range(excludePollIds) \cup {mainPollId}
      Where(row) ==
        /\ row.id \notin allExcludedIds
        /\ Given(options, "query") => QuestionLike(row.question, options.query)
      rows == SelectSeq(Polls, Where)
  IN [polls |-> WithAnswers(LimitOffset(OrderByCreatedAt(rows, "DESC"), limit, offset)),
      totalCount |-> Len(rows)]

\* req.query[name] ? parseInt(req.query[name], 10) : default.
PageParam(query, name, default) ==
  IF name \in DOMAIN query /\ query[name] # <<>> THEN parseInt(query[name])
  ELSE Number(default)

\* Both controllers' checks of limit and offset: the error, "" when they pass.
PaginationError(limit, offset) ==
  IF limit.nan \/ limit.value < MinLimit \/ limit.value > MaxLimit
  THEN "Invalid limit"
  ELSE IF offset.nan \/ offset.value < 0 THEN "Invalid offset"
  ELSE ""

\* The options the controllers hand on: query only when q is given.
WithQuery(options, query) ==
  IF "q" \in DOMAIN query THEN options @@ [query |-> query.q] ELSE options

\* hasMore with <= in the place of <.
HasMoreInclusive(limit, offset, totalCount) == offset + limit <= totalCount

\* hasMore: offset + limit < result.totalCount.
HasMore(limit, offset, totalCount) == offset + limit < totalCount

Pagination(limit, offset, totalCount) ==
  [total |-> totalCount, limit |-> limit, offset |-> offset,
   hasMore |-> HasMore(limit, offset, totalCount)]

\* controllers.getFeed for the request of user with this query string.
getFeed(user, query) ==
  LET limit == PageParam(query, "limit", DefaultLimit)
      offset == PageParam(query, "offset", DefaultOffset)
      sortBy == IF "sort" \in DOMAIN query /\ query.sort # "" THEN query.sort
                ELSE "newest"
      bad == PaginationError(limit, offset)
      result == getPolls(WithQuery([limit |-> limit.value, offset |-> offset.value,
                                    sortBy |-> sortBy], query))
      Enhanced(r) ==
        LET author == getUserById(r.poll.author_id)
            userVote == IF user = Null THEN Null ELSE getUserVote(user.id, r.poll.id)
        IN [poll |-> r.poll, answers |-> r.answers,
            author |-> IF author = Null THEN [id |-> Undefined, name |-> NullText]
                       ELSE [id |-> author.id, name |-> author.name],
            voteCounts |-> getVoteCounts(r.poll.id),
            userVote |-> IF userVote = Null THEN Null
                         ELSE [answerId |-> userVote.answer_id]]
  IN IF bad # "" THEN [status |-> 400, error |-> bad]
     ELSE IF sortBy \notin {"newest", "oldest"}
     THEN [status |-> 400, error |-> "Invalid sort parameter"]
     ELSE [status |-> 200, error |-> "",
           polls |-> [i \in 1..Len(result.polls) |-> Enhanced(result.polls[i])],
           pagination |-> Pagination(limit.value, offset.value, result.totalCount)]

\* The excludePollIds of searchCrossReferences: the pk values that are not empty.
ExcludePollIds(query) ==
  IF "exclude" \in DOMAIN query
  THEN SelectSeq(query.exclude, LAMBDA pollId : ~ Falsy(pollId))
  ELSE <<>>

\* controllers.searchCrossReferences for poll id with this query string.
searchCrossReferences(id, query) ==
  LET limit == PageParam(query, "limit", DefaultLimit)
      offset == PageParam(query, "offset", DefaultOffset)
      bad == PaginationError(limit, offset)
      result == getCrossReferenceCandidates(id,
                  WithQuery([excludePollIds |-> ExcludePollIds(query),
                             limit |-> limit.value, offset |-> offset.value], query))
      Enhanced(r) ==
        LET author == getUserById(r.poll.author_id)
        IN [poll |-> r.poll, answers |-> r.answers,
            author |-> IF author = Null THEN [id |-> Undefined, name |-> NullText]
                       ELSE [id |-> author.id, name |-> author.name]]
  IN IF Falsy(id) THEN [status |-> 400, error |-> "Missing poll ID"]
     ELSE IF getPollById(id) = Null THEN [status |-> 404, error |-> "Poll not found"]
     ELSE IF bad # "" THEN [status |-> 400, error |-> bad]
     ELSE [status |-> 200, error |-> "",
           polls |-> [i \in 1..Len(result.polls) |-> Enhanced(result.polls[i])],
           pagination |-> Pagination(limit.value, offset.value, result.totalCount)]

\* GET /api/feed: the application's authenticate, the route's, then getFeed.
HttpFeed(token, query) ==
  LET auth == RouteAuthenticate(token)
  IN /\ last = Ready
     /\ Cardinality(auth.users) <= MaxUsers
     /\ Users' = auth.users
     /\ nextId' = auth.next
     /\ UNCHANGED <<Polls, Answers, Votes, procs, migrations, files>>
     /\ last' = [op |-> "GET /api/feed", token |-> token, query |-> query,
                 resp |-> getFeed(auth.user, query)]

\* GET /api/poll/:id/search: the application's authenticate, the route's, then
\* searchCrossReferences.
HttpSearch(token, id, query) ==
  LET auth == RouteAuthenticate(token)
  IN /\ last = Ready
     /\ Cardinality(auth.users) <= MaxUsers
     /\ Users' = auth.users
     /\ nextId' = auth.next
     /\ UNCHANGED <<Polls, Answers, Votes, procs, migrations, files>>
     /\ last' = [op |-> "GET /api/poll/:id/search", token |-> token, id |-> id,
                 query |-> query, resp |-> searchCrossReferences(id, query)]

\* The question of the n-th poll of a seeded listing: every other one has a q.
SeedQuestion(n) == IF n % 2 = 1 THEN <<"Q", "x">> ELSE <<"y">>

\* The tables after n calls of createPoll with two answers each, by one user
\* and then by the two users two polls each in turn: each call takes three
\* ids, the poll's and its answers', and two calls run in each millisecond.
SeedFeed(n) ==
  [polls |-> [i \in 1..n |->
                [id |-> SeedNext + 3 * (i - 1), author_id |-> 1 + ((i \div 2) % 2),
                 created_at |-> (i + 1) \div 2, question |-> SeedQuestion(i)]],
   answers |-> [k \in 1..(2 * n) |->
                  LET i == (k + 1) \div 2
                      j == k - 2 * (i - 1)
                  IN [id |-> SeedNext + 3 * (i - 1) + j,
                      poll_id |-> SeedNext + 3 * (i - 1),
                      text |-> IF j = 1 THEN X ELSE Y]],
   next |-> SeedNext + 3 * n]

\* The numbers of polls listed: none, a few, and the largest page and one more.
FeedSizeInputs == {0, 1, 2, 3, MaxLimit, MaxLimit + 1}

InitFeed ==
  \E n \in FeedSizeInputs :
    /\ Users = SeedUsers
    /\ Polls = SeedFeed(n).polls
    /\ Answers = SeedFeed(n).answers
    /\ Votes = {}
    /\ nextId = SeedFeed(n).next
    /\ last = Ready
    /\ procs = [i \in 1..MaxProcs |-> Idle]
    /\ migrations = <<>>
    /\ files = {}

\* The texts sent as limit and offset.
LimitInputs ==
  {<<>>, <<"0">>, <<"1">>, <<"2">>, <<"5", "0">>, <<"5", "1">>, <<"x">>, <<"1", "x">>}
OffsetInputs ==
  {<<"0">>, <<"1">>, <<"2">>, <<"5", "0">>, <<"-", "1">>, <<"x">>, <<"1", "x">>}
TextQueryInputs == {<<>>, <<"q">>, <<"z">>}
SortInputs == {"", "newest", "oldest", "popular"}

\* The records with any of the fields of fields given, each with a value of its
\* set.
RECURSIVE Records(_)
Records(fields) ==
  IF DOMAIN fields = {} THEN {<<>>}
  ELSE LET f == CHOOSE x \in DOMAIN fields : TRUE
           rest == Records([g \in DOMAIN fields \ {f} |-> fields[g]])
       IN rest \cup {r @@ (f :> v) : r \in rest, v \in fields[f]}

FeedQueryInputs ==
  Records([limit |-> LimitInputs, offset |-> OffsetInputs, q |-> TextQueryInputs,
           sort |-> SortInputs])

\* The first two polls of the table: the ids sent as base poll and in the lists.
FirstPollIds == {Polls[i].id : i \in 1..(IF Len(Polls) < 2 THEN Len(Polls) ELSE 2)}

RECURSIVE ExcludeLists(_)
ExcludeLists(n) ==
  IF n = 0 THEN {<<>>}
  ELSE {Append(l, x) : l \in ExcludeLists(n - 1), x \in FirstPollIds \cup {EmptyId}}

SearchQueryInputs ==
  Records([limit |-> LimitInputs, offset |-> OffsetInputs, q |-> {<<"q">>},
           exclude |-> UNION {ExcludeLists(n) : n \in 1..MaxPairs}])

\* The requests are sent with the cookie of the first user.
FeedTokenInputs == {1}

NextFeed ==
  \/ /\ last = Ready
     /\ \E t \in FeedTokenInputs, q \in FeedQueryInputs : HttpFeed(t, q)
  \/ /\ last = Ready
     /\ \E t \in FeedTokenInputs, id \in IdInputs(FirstPollIds), q \in SearchQueryInputs :
          HttpSearch(t, id, q)
  \/ Deliver

\* Feed and candidate-search requests on stores of none to fifty-one polls.
SpecFeed == InitFeed /\ [][NextFeed]_vars

(* --------------------------- users and logins -------------------------- *)

\* A request to a route behind authenticate alone, which answers with the user
\* attached and with isAuthenticated.
HttpPublic(token) ==
  LET auth == AppAuthenticate(token)
  IN /\ last = Ready
     /\ Cardinality(auth.users) <= MaxUsers
     /\ Users' = auth.users
     /\ nextId' = auth.next
     /\ last' = [op |-> "GET /public", token |-> token, user |-> auth.user,
                 isAuthenticated |-> auth.isAuthenticated]
     /\ UNCHANGED <<Polls, Answers, Votes, procs, migrations, files>>

\* DatabaseUtils.getUserByEmail: SELECT * FROM Users WHERE email = ?.
getUserByEmail(email) ==
  IF \E u \in Users : u.email = email
  THEN CHOOSE u \in Users : u.email = email
  ELSE Null

\* DatabaseUtils.createUser(email, name): what is thrown ("" when it returns),
\* the row returned and the Users table after.  The email column is UNIQUE.
createUser(email, name) ==
  LET row == [id |-> nextId, email |-> email, name |-> name]
  IN IF email # NullText /\ \E u \in Users : u.email = email
     THEN [error |-> "UNIQUE constraint failed: Users.email", user |-> Null,
           users |-> Users, next |-> nextId]
     ELSE [error |-> "", user |-> row, users |-> Users \cup {row}, next |-> nextId + 1]

\* DatabaseUtils.updateUser(id, data): the fields of data that are given are
\* written to the row of id; the row after is returned, Null when there is none.
updateUser(id, data) ==
  LET user == getUserById(id)
      row == [id |-> id,
              email |-> IF "email" \in DOMAIN data THEN data.email ELSE user.email,
              name |-> IF "name" \in DOMAIN data THEN data.name ELSE user.name]
  IN IF user = Null THEN [user |-> Null, users |-> Users]
     ELSE [user |-> row, users |-> (Users \ {user}) \cup {row}]

\* createOrUpdateUserFromGoogle that inserts a user at every login.
createOrUpdateUserFromGoogleInsert(googleInfo) ==
  LET row == [id |-> nextId, email |-> googleInfo.email, name |-> googleInfo.name]
  IN [error |-> "", user |-> row, users |-> Users \cup {row}, next |-> nextId + 1]

\* createOrUpdateUserFromGoogle(googleInfo).
createOrUpdateUserFromGoogle(googleInfo) ==
  LET existingUser == getUserByEmail(googleInfo.email)
      updated == updateUser(existingUser.id, [name |-> googleInfo.name])
  IN IF existingUser # Null
     THEN [error |-> "", user |-> updated.user, users |-> updated.users,
           next |-> nextId]
     ELSE createUser(googleInfo.email, googleInfo.name)

\* A Google login that reached createOrUpdateUserFromGoogle.
GoogleLogin(googleInfo) ==
  LET r == createOrUpdateUserFromGoogle(googleInfo)
  IN /\ last = Ready
     /\ Cardinality(r.users) <= MaxUsers
     /\ Users' = r.users
     /\ nextId' = r.next
     /\ last' = [op |-> "createOrUpdateUserFromGoogle", googleInfo |-> googleInfo,
                 error |-> r.error, user |-> r.user]
     /\ UNCHANGED <<Polls, Answers, Votes, procs, migrations, files>>

\* The profiles Google sends: the email of a seeded user or a new one, with the
\* seeded name or another.
GoogleInputs ==
  {[email |-> e, name |-> n] :
     e \in {"a@example.com", "c@example.com", "d@example.com"}, n \in {"A", "N"}}

NextAuth ==
  \/ /\ last = Ready
     /\ \E t \in TokenInputs : HttpPublic(t)
  \/ /\ last = Ready
     /\ \E g \in GoogleInputs : GoogleLogin(g)
  \/ Deliver

\* Requests behind authenticate and Google logins, from the two seeded users.
SpecAuth == InitEmpty /\ [][NextAuth]_vars

(* ------------------------------ migrations ----------------------------- *)

(* files is the migrations directory: the names of its .sql files, each a     *)
(* text without the suffix; migrations is the migrations table, its rows in   *)
(* the order of their insertion.                                             *)

\* The characters of file names in the order of their UTF-16 code units.
CodeUnits == Digits \o <<"_", "a", "b", "x">>

CodeUnit(c) == CHOOSE i \in 1..Len(CodeUnits) : CodeUnits[i] = c

\* The order of Array.prototype.sort() without a comparator: by code units, a
\* text before the texts it starts.
RECURSIVE StringBefore(_, _)
StringBefore(f, g) ==
  IF f = <<>> THEN g # <<>>
  ELSE IF g = <<>> THEN FALSE
  ELSE IF Head(f) # Head(g) THEN CodeUnit(Head(f)) < CodeUnit(Head(g))
  ELSE StringBefore(Tail(f), Tail(g))

\* The texts of a set, sorted.
RECURSIVE SortStrings(_)
SortStrings(names) ==
  IF names = {} THEN <<>>
  ELSE LET f == CHOOSE x \in names : \A y \in names \ {x} : StringBefore(x, y)
       IN <<f>> \o SortStrings(names \ {f})

\* The digits a text starts with.
RECURSIVE DigitPrefix(_)
DigitPrefix(f) ==
  IF f = <<>> \/ ~ IsDigit(Head(f)) THEN <<>>
  ELSE <<Head(f)>> \o DigitPrefix(Tail(f))

\* file.match(/^(\d+)_(.+)\.sql$/): digits, an underscore and a name.
FileMatches(f) ==
  LET d == DigitPrefix(f)
  IN d # <<>> /\ Len(f) >= Len(d) + 2 /\ f[Len(d) + 1] = "_"

\* The migration of a file that matches: parseInt of the digits, and the name.
MigrationOf(f) ==
  [id |-> parseInt(DigitPrefix(f)).value,
   name |-> SubSeq(f, Len(DigitPrefix(f)) + 2, Len(f))]

\* loadMigrationFiles: the migrations of the matching files, in the sorted
\* order of the file names.
loadMigrationFiles ==
  LET sorted == SortStrings(files)
      matching == SelectSeq(sorted, FileMatches)
  IN [i \in 1..Len(matching) |-> MigrationOf(matching[i])]

\* getAppliedMigrations: SELECT id FROM migrations ORDER BY id.
getAppliedMigrations == {migrations[i].id : i \in 1..Len(migrations)}

\* The loop of applyMigrations over the migrations ms from the table table: a
\* migration whose id was in the table before the call is skipped, the others
\* are run and recorded; the INSERT throws on an id the table holds (PRIMARY KEY).
RECURSIVE ApplyLoop(_, _, _)
ApplyLoop(ms, table, applied) ==
  IF ms = <<>> THEN [error |-> "", table |-> table]
  ELSE IF Head(ms).id \in applied THEN ApplyLoop(Tail(ms), table, applied)
  ELSE IF \E i \in 1..Len(table) : table[i].id = Head(ms).id
  THEN [error |-> "UNIQUE constraint failed: migrations.id", table |-> table]
  ELSE ApplyLoop(Tail(ms), Append(table, Head(ms)), applied)

\* applyMigrations(db): what is thrown ("" when it returns), the number
\* returned and the table after; a throw rolls the transaction back.
applyMigrations ==
  LET r == ApplyLoop(loadMigrationFiles, migrations, getAppliedMigrations)
  IN IF r.error # ""
     THEN [error |-> r.error, appliedCount |-> 0, table |-> migrations]
     ELSE [error |-> "", appliedCount |-> Len(r.table) - Len(migrations),
           table |-> r.table]

\* The decimal digits of a number.
RECURSIVE DecimalString(_)
DecimalString(n) ==
  IF n < 10 THEN <<Digits[n + 1]>>
  ELSE Append(DecimalString(n \div 10), Digits[(n % 10) + 1])

\* padStart(3, '0').
PadStart3(d) ==
  IF Len(d) >= 3 THEN d ELSE [i \in 1..(3 - Len(d)) |-> "0"] \o d

\* The name createTestMigration gives the file of migration id.
MigrationFileName(id, name) == PadStart3(DecimalString(id)) \o <<"_">> \o name

\* The largest number of files in the migrations directory.
MaxFiles == 3

\* The migration files written: those of migrations 1, 2, 999 and 1000, and a
\* file that is no migration.
FileInputs ==
  {MigrationFileName(id, <<"a">>) : id \in {1, 2, 999, 1000}} \cup {<<"x">>}

\* A file is written to the migrations directory.
AddMigrationFile(f) ==
  /\ last = Ready
  /\ f \notin files
  /\ Cardinality(files) < MaxFiles
  /\ files' = files \cup {f}
  /\ last' = [op |-> "writeFile", file |-> f]
  /\ UNCHANGED <<store, procs, migrations>>

\* applyMigrations(db), as initializeDatabase and the tests call it.
ApplyMigrations ==
  LET r == applyMigrations
  IN /\ last = Ready
     /\ migrations' = r.table
     /\ last' = [op |-> "applyMigrations", error |-> r.error,
                 appliedCount |-> r.appliedCount]
     /\ UNCHANGED <<store, procs, files>>

NextMigrate ==
  \/ /\ last = Ready
     /\ \E f \in FileInputs : AddMigrationFile(f)
  \/ ApplyMigrations
  \/ Deliver

\* Migration files written and applied, from an empty directory and table.
SpecMigrate == InitEmpty /\ [][NextMigrate]_vars

(* ---------------------- listings read from the store -------------------- *)

\* dbUtils.getPolls(options), as the tests call it.
DbGetPolls(options) ==
  /\ last = Ready
  /\ last' = [op |-> "getPolls", options |-> options, result |-> getPolls(options)]
  /\ UNCHANGED <<store, procs, migrations, files>>

\* dbUtils.getCrossReferenceCandidates(mainPollId, options).
DbGetCandidates(mainPollId, options) ==
  /\ last = Ready
  /\ last' = [op |-> "getCrossReferenceCandidates", mainPollId |-> mainPollId,
              options |-> options,
              result |-> getCrossReferenceCandidates(mainPollId, options)]
  /\ UNCHANGED <<store, procs, migrations, files>>

\* The largest number of polls in the tables the listings are read from.
MaxListed == 4

InitList ==
  \E n \in 0..MaxListed :
    /\ Users = SeedUsers
    /\ Polls = SeedFeed(n).polls
    /\ Answers = SeedFeed(n).answers
    /\ Votes = {}
    /\ nextId = SeedFeed(n).next
    /\ last = Ready
    /\ procs = [i \in 1..MaxProcs |-> Idle]
    /\ migrations = <<>>
    /\ files = {}

\* The options of the listing calls.
GetPollsInputs ==
  Records([limit |-> {1, 2, 3}, offset |-> {0, 1, 2, 4}, sortBy |-> {"newest", "oldest"},
           query |-> {<<"q">>}, authorId |-> {1, 2, NoSuchId}])
\* The query strings of the feed requests that name an author or a voter.
FilteredFeedInputs ==
  Records([limit |-> {<<"2">>}, q |-> {<<"q">>}, sort |-> {"oldest"},
           authorId |-> {1, 2, NoSuchId}, voterId |-> {1, 2, NoSuchId}])
CandidatesInputs ==
  Records([limit |-> {1, 2}, offset |-> {0, 1}, query |-> {<<"q">>},
           excludePollIds |-> {<<x>> : x \in FirstPollIds}])

\* The first answer of a poll.
FirstAnswerId(pollId) == SelectRows(Answers, pollId)[1].id

NextList ==
  \/ /\ last = Ready
     /\ \E u \in UserIds, p \in FirstPollIds : DbCreateVote(u, p, FirstAnswerId(p))
  \/ /\ last = Ready
     /\ \E u \in UserIds : DbCreatePoll(u, SeedQuestion(Len(Polls) + 1), <<X, Y>>)
  \/ /\ last = Ready
     /\ \E o \in GetPollsInputs : DbGetPolls(o)
  \/ /\ last = Ready
     /\ \E t \in FeedTokenInputs, q \in FilteredFeedInputs : HttpFeed(t, q)
  \/ /\ last = Ready
     /\ \E id \in FirstPollIds, o \in CandidatesInputs : DbGetCandidates(id, o)
  \/ Deliver

\* Listings read from stores of up to four polls, two to a millisecond or as
\* the clock has it, with votes on the first two.
SpecList == InitList /\ [][NextList]_vars

(* ------------------------------- claims -------------------------------- *)

\* Whether answerId is an answer of poll pollId.
AnswerOfPoll(answerId, pollId) ==
  \E a \in Range(Answers) : a.id = answerId /\ a.poll_id = pollId

\* The users with a vote for answer a on poll b and a vote for answer r on poll R.
Cohort(b, a, R, r) ==
  {u \in UserIds :
     /\ \E v \in Votes : v.user_id = u /\ v.poll_id = b /\ v.answer_id = a
     /\ \E w \in Votes : w.user_id = u /\ w.poll_id = R /\ w.answer_id = r}

\* C1: for a valid pair (R, r), getCrossReferencedVoteCounts(base, R, r) maps
\* each answer a to the number of users with a vote for a on base and a vote for
\* r on R; an answer with no such user is no key of the map, so an empty cohort
\* gives the empty map.
C1_CrossCountsAreCohortSizes ==
  (/\ last.op = "getCrossReferencedVoteCounts"
   /\ AnswerOfPoll(last.crossAnswerId, last.crossPollId))
  => LET keys == {a \in AnswerIds :
                    Cohort(last.pollId, a, last.crossPollId, last.crossAnswerId) # {}}
     IN last.result =
          [a \in keys |->
             Cardinality(Cohort(last.pollId, a, last.crossPollId, last.crossAnswerId))]

\* C1 witness: a valid pair whose cohort holds two users with the same base answer.
C1_Witness ==
  /\ last.op = "getCrossReferencedVoteCounts"
  /\ AnswerOfPoll(last.crossAnswerId, last.crossPollId)
  /\ last.pollId # last.crossPollId
  /\ \E a \in DOMAIN last.result : last.result[a] = 2

\* Whether both halves of a reference pair are given and non-empty.
Complete(x) == x.p \notin {Undefined, EmptyId} /\ x.a \notin {Undefined, EmptyId}

\* Whether a pair names a poll of the store and an answer of that poll.
ValidPair(x) == x.p \in PollIds /\ AnswerOfPoll(x.a, x.p)

CompletePairs(q) == SelectSeq(q, Complete)

\* The cross-reference entries of a response, none when it has no such field.
Entries(resp) ==
  IF "crossReferences" \in DOMAIN resp THEN resp.crossReferences ELSE <<>>

\* The response required when pair x fails validation: nothing but the error,
\* which is about the poll when the poll does not exist, whatever the answer is.
InvalidPairResponse(x) ==
  [status |-> 400, error |-> "Invalid cross-reference",
   message |-> IF x.p \notin PollIds THEN "poll not found"
               ELSE "answer does not belong to poll"]

\* The first complete pair of q that fails validation.
FirstInvalid(q) ==
  q[CHOOSE k \in 1..Len(q) :
      /\ Complete(q[k]) /\ ~ ValidPair(q[k])
      /\ \A j \in 1..(k - 1) : ~ Complete(q[j]) \/ ValidPair(q[j])]

\* C2 as stated: in any poll-detail request, a complete pair that names no poll,
\* or an answer that is not of the named poll, makes the request fail with
\* 'Invalid cross-reference' and nothing else, the poll's existence being looked
\* at before the answer, also when other pairs are valid.
C2_InvalidPairAbortsAnyRequest ==
  (/\ last.op = "GET /api/poll/:id"
   /\ \E k \in 1..Len(last.query) :
        Complete(last.query[k]) /\ ~ ValidPair(last.query[k]))
  => last.resp = InvalidPairResponse(FirstInvalid(last.query))

\* C2: in a poll-detail request for a base poll that exists, a complete pair
\* that names no poll, or an answer that is not of the named poll, makes the
\* request fail with 'Invalid cross-reference' and no poll data and no
\* cross-reference results, the poll's existence being looked at before the
\* answer, also when other pairs are valid.
C2_InvalidPairAbortsRequest ==
  (/\ last.op = "GET /api/poll/:id"
   /\ last.id \in PollIds
   /\ \E k \in 1..Len(last.query) :
        Complete(last.query[k]) /\ ~ ValidPair(last.query[k]))
  => last.resp = InvalidPairResponse(FirstInvalid(last.query))

\* C2 witness: a valid pair followed by a pair naming no poll but an answer of
\* the store is answered with the error about the poll.
C2_Witness ==
  /\ last.op = "GET /api/poll/:id"
  /\ last.id \in PollIds
  /\ Len(last.query) = 2
  /\ ValidPair(last.query[1])
  /\ last.query[2].p = NoSuchId
  /\ last.query[2].a \in AnswerIds
  /\ last.resp.status = 400
  /\ last.resp.message = "poll not found"

\* C3: a pair with one half missing or empty is dropped without error and
\* without validating the other half: the response is that of the request
\* without the pair, so the request succeeds when every complete pair is valid,
\* with one entry per complete pair.
C3_HalfPairsDropped ==
  (last.op = "GET /api/poll/:id" /\ last.id \in PollIds)
  => /\ last.resp = getPollByIdController(getUserFromToken(Users, last.token), last.id,
                                          CompletePairs(last.query))
     /\ (\A k \in 1..Len(last.query) :
           Complete(last.query[k]) => ValidPair(last.query[k]))
        => /\ last.resp.status = 200
           /\ Len(Entries(last.resp)) = Len(CompletePairs(last.query))

\* C3 witness: a request whose first pair names no poll and gives no answer id,
\* and whose second pair is valid, succeeds with the one entry of the second.
C3_Witness ==
  /\ last.op = "GET /api/poll/:id"
  /\ Len(last.query) = 2
  /\ last.query[1] = [p |-> NoSuchId, a |-> Undefined]
  /\ ValidPair(last.query[2])
  /\ last.resp.status = 200
  /\ Len(Entries(last.resp)) = 1
  /\ last.resp.crossReferences[1].pollId = last.query[2].p

\* The count map of base poll b restricted to the users who voted r on poll R.
CohortCounts(b, R, r) ==
  [a \in {x \in AnswerIds : Cohort(b, x, R, r) # {}} |->
     Cardinality(Cohort(b, a, R, r))]

\* C4: a successful poll-detail response has a crossReferences list exactly when
\* a complete, valid pair was supplied (the field is absent otherwise, never an
\* empty list); the list has one entry per complete pair, in their order, with
\* the reference poll's id and question, the reference answer's id and text, and
\* the restricted count map.
C4_CrossReferencesListed ==
  (last.op = "GET /api/poll/:id" /\ last.resp.status = 200)
  => LET cp == CompletePairs(last.query)
     IN /\ "crossReferences" \in DOMAIN last.resp
             <=> \E k \in 1..Len(last.query) :
                   Complete(last.query[k]) /\ ValidPair(last.query[k])
        /\ Len(Entries(last.resp)) = Len(cp)
        /\ \A k \in 1..Len(cp) :
             LET e == last.resp.crossReferences[k]
             IN /\ e.poll.id = cp[k].p
                /\ \E row \in Range(Polls) :
                     row.id = cp[k].p /\ row.question = e.poll.question
                /\ e.answer.id = cp[k].a
                /\ \E row \in Range(Answers) :
                     row.id = cp[k].a /\ row.text = e.answer.text
                /\ e.voteCounts = CohortCounts(last.id, cp[k].p, cp[k].a)

\* C4 witness: a response with two entries, one of them with a non-empty count
\* map.
C4_Witness ==
  /\ last.op = "GET /api/poll/:id"
  /\ last.resp.status = 200
  /\ Len(Entries(last.resp)) = 2
  /\ DOMAIN last.resp.crossReferences[2].voteCounts # {}

\* C5: the count map of each entry is the one the request with that pair alone
\* gets: the other pairs of the request do not change it.
C5_PairsIndependent ==
  (last.op = "GET /api/poll/:id" /\ last.resp.status = 200)
  => \A k \in 1..Len(Entries(last.resp)) :
       last.resp.crossReferences[k].voteCounts =
         getPollByIdController(getUserFromToken(Users, last.token), last.id,
                               <<CompletePairs(last.query)[k]>>)
           .crossReferences[1].voteCounts

\* C5 witness: two entries whose count maps are both non-empty and share no key.
C5_Witness ==
  /\ last.op = "GET /api/poll/:id"
  /\ last.resp.status = 200
  /\ Len(Entries(last.resp)) = 2
  /\ DOMAIN last.resp.crossReferences[1].voteCounts # {}
  /\ DOMAIN last.resp.crossReferences[2].voteCounts # {}
  /\ DOMAIN last.resp.crossReferences[1].voteCounts
       \cap DOMAIN last.resp.crossReferences[2].voteCounts = {}


\* C8: every persisted poll has a non-blank question and between 2 and 10
\* answers, each with non-blank text, also after createPoll calls that failed.
C8_PollsWellFormed ==
  \A p \in Range(Polls) :
    /\ ~ IsBlank(p.question)
    /\ Len(SelectRows(Answers, p.id)) >= MinAnswers
    /\ Len(SelectRows(Answers, p.id)) <= MaxAnswers
    /\ \A a \in Range(SelectRows(Answers, p.id)) : ~ IsBlank(a.text)

\* C9: createPoll is all-or-nothing: a call that fails adds no Polls row and no
\* Answers row, and a call that succeeds adds the poll and one row per answer text.
C9_CreatePollAllOrNothing ==
  [][last'.op = "createPoll" =>
       IF last'.error # ""
       THEN Polls' = Polls /\ Answers' = Answers
       ELSE /\ Polls' = Append(Polls, last'.poll)
            /\ Len(Answers') = Len(Answers) + Len(last'.answerTexts)
            /\ Len(SelectRows(Answers', last'.poll.id)) = Len(last'.answerTexts)]_vars

\* Whether a cookie names an existing user with an email.
Authenticated(token) ==
  \E u \in Users : u.id = token /\ u.email # NullText

\* The error of a vote request by the order of checks the claim gives, read in
\* the state the request arrives in ("" when every check passes).
ExpectedVoteError(token, pollId, answerId) ==
  IF ~ Authenticated(token) THEN "Authentication required"
  ELSE IF answerId \in {Undefined, EmptyId} THEN "Missing answer ID"
  ELSE IF pollId \notin PollIds THEN "Poll not found"
  ELSE IF ~ AnswerOfPoll(answerId, pollId) THEN "Invalid answer"
  ELSE IF \E v \in Votes : v.poll_id = pollId /\ v.user_id = token THEN "Already voted"
  ELSE ""

\* C10: voteOnPoll reports the first failing check in the order authentication,
\* missing answer id, poll existence, answer membership, existing vote: so a
\* nonexistent poll gives 'Poll not found' whatever answer id is sent, and a user
\* who has voted and sends an answer of another poll gets 'Invalid answer'.
C10_VoteChecksInOrder ==
  [][last'.op = "POST /api/poll/:id/vote" =>
       last'.resp.error = ExpectedVoteError(last'.token, last'.pollId, last'.answerId)]_vars

\* C10 witness: a user with a vote on the poll is answered 'Invalid answer'.
C10_Witness ==
  /\ last.op = "POST /api/poll/:id/vote"
  /\ last.resp.error = "Invalid answer"
  /\ \E v \in Votes : v.poll_id = last.pollId /\ v.user_id = last.token

\* C6: for every (poll, user) pair there is at most one vote, whatever vote
\* requests and createVote calls have run, in whatever interleaving.
C6_OneVotePerPollAndUser ==
  \A p \in PollIds, u \in UserIds :
    Cardinality({v \in Votes : v.poll_id = p /\ v.user_id = u}) <= 1

\* C6 witness: two processes passed createVote's SELECT for one pair, one
\* inserted its row and the INSERT of the other was refused.
C6_Witness ==
  \E i, j \in 1..MaxProcs :
    /\ procs[i].pc \in {"counts", "done"}
    /\ procs[j].pc = "done"
    /\ "thrown" \in DOMAIN procs[j]
    /\ procs[j].thrown = UniqueThrown
    /\ "vote" \in DOMAIN procs[i]
    /\ procs[i].vote \in Votes
    /\ procs[i].pollId = procs[j].pollId
    /\ procs[i].userId = procs[j].userId

\* The processes whose vote request is for this poll and user and passed the
\* checks of the poll and the answer.
Racers(p, u) ==
  {i \in 1..MaxProcs :
     /\ procs[i].pc # "idle"
     /\ procs[i].kind = "http"
     /\ procs[i].pollId = p
     /\ procs[i].userId = u
     /\ AnswerOfPoll(procs[i].answerId, p)}

\* C7: of the vote requests for one (poll, user) pair that are processed
\* concurrently, exactly one succeeds and every other one is answered 'Already
\* voted', whatever the interleaving (here no other call votes for the pair).
C7_OneWinnerRestAlreadyVoted ==
  \A p \in PollIds, u \in UserIds :
    (/\ \A i \in 1..MaxProcs :
          procs[i].pc # "idle" /\ procs[i].pollId = p /\ procs[i].userId = u
            => procs[i].kind = "http"
     /\ \A i \in Racers(p, u) : procs[i].pc = "done"
     /\ Racers(p, u) # {})
    => /\ Cardinality({i \in Racers(p, u) : procs[i].resp.status = 201}) = 1
       /\ \A i \in Racers(p, u) :
            procs[i].resp.status = 201 \/ procs[i].resp.error = "Already voted"

\* The number of votes of the table votes for answer a on poll p.
Tally(votes, p, a) ==
  Cardinality({v \in votes : v.poll_id = p /\ v.answer_id = a})

\* The entry of answer a in a count map, 0 when a is no key of it.
CountOf(m, a) == IF a \in DOMAIN m THEN m[a] ELSE 0

\* C11: a vote request of an authenticated user who has a vote on the poll, for
\* an answer of the poll, is answered 'Already voted' with the answer id of the
\* stored vote, and leaves the Votes table and every count as they were, also
\* when it names another answer of the poll.
C11_SecondVoteRejected ==
  [][(/\ last'.op = "POST /api/poll/:id/vote"
      /\ Authenticated(last'.token)
      /\ AnswerOfPoll(last'.answerId, last'.pollId)
      /\ \E v \in Votes : v.poll_id = last'.pollId /\ v.user_id = last'.token)
     => LET stored == CHOOSE v \in Votes :
                        v.poll_id = last'.pollId /\ v.user_id = last'.token
        IN /\ last'.resp.status = 400
           /\ last'.resp.error = "Already voted"
           /\ last'.resp.vote.answerId = stored.answer_id
           /\ Votes' = Votes
           /\ \A p \in PollIds, a \in AnswerIds :
                Tally(Votes', p, a) = Tally(Votes, p, a)]_vars

\* C11 witness: a user with a stored vote is answered 'Already voted' on asking
\* for another answer of the poll.
C11_Witness ==
  /\ last.op = "POST /api/poll/:id/vote"
  /\ last.resp.error = "Already voted"
  /\ AnswerOfPoll(last.answerId, last.pollId)
  /\ last.resp.vote.answerId # last.answerId

\* C12: a vote request answered 201 returns the created vote and a count map
\* in which the chosen answer has its count of before the request plus one and
\* every other answer the count it had; afterwards getUserVote of the user and
\* the poll gives the chosen answer.
C12_VoteCounted ==
  [][(last'.op = "POST /api/poll/:id/vote" /\ last'.resp.status = 201)
     => /\ last'.resp.vote.answerId = last'.answerId
        /\ last'.resp.vote.pollId = last'.pollId
        /\ \E v \in Votes' \ Votes :
             /\ v.id = last'.resp.vote.id
             /\ v.user_id = last'.token
             /\ v.poll_id = last'.pollId
             /\ v.answer_id = last'.answerId
        /\ \A a \in AnswerIds :
             CountOf(last'.resp.voteCounts, a) =
               Tally(Votes, last'.pollId, a) + (IF a = last'.answerId THEN 1 ELSE 0)
        /\ \A a \in DOMAIN last'.resp.voteCounts : a \in AnswerIds
        /\ \E v \in Votes' :
             /\ v.user_id = last'.token /\ v.poll_id = last'.pollId
             /\ v.answer_id = last'.answerId
             /\ \A w \in Votes' :
                  w.user_id = last'.token /\ w.poll_id = last'.pollId => w = v]_vars

\* C12 witness: the second vote for an answer is answered with the count 2.
C12_Witness ==
  /\ last.op = "POST /api/poll/:id/vote"
  /\ last.resp.status = 201
  /\ last.resp.voteCounts[last.answerId] = 2
  /\ getUserVote(last.token, last.pollId).answer_id = last.answerId

\* C13: a create-poll or vote request whose cookie is missing, invalid, or
\* names a user without an email is answered 401 'Authentication required' and
\* adds no poll, no answer and no vote.
C13_WritesNeedAuthentication ==
  [][(/\ last'.op \in {"POST /api/poll", "POST /api/poll/:id/vote"}
      /\ ~ Authenticated(last'.token))
     => /\ last'.resp.status = 401
        /\ last'.resp.error = "Authentication required"
        /\ Polls' = Polls
        /\ Answers' = Answers
        /\ Votes' = Votes]_vars

\* C13 witness: the cookie of an anonymous user (no email) sent with a body the
\* controller would accept is answered 401.
C13_Witness ==
  /\ last.op = "POST /api/poll"
  /\ \E u \in Users : u.id = last.token /\ u.email = NullText
  /\ CreatePollBodyError(last.body) = ""
  /\ last.resp.status = 401

\* C14: votes are append-only: a vote that exists is in every later state
\* unchanged, so getUserVote of its user and poll keeps its answer and no count
\* of getVoteCounts gets smaller.
C14_VotesAppendOnly ==
  [][/\ Votes \subseteq Votes'
     /\ \A u \in UserIds, p \in PollIds :
          getUserVote(u, p) # Null
            => \E v \in Votes' :
                 /\ v.user_id = u /\ v.poll_id = p
                 /\ v.answer_id = getUserVote(u, p).answer_id
                 /\ \A w \in Votes' : w.user_id = u /\ w.poll_id = p => w = v
     /\ \A p \in PollIds, a \in AnswerIds :
          CountOf(VoteCounts(Votes', p), a) >= CountOf(VoteCounts(Votes, p), a)]_vars

\* C14 witness: a user with a vote on a poll calls createVote for the other
\* answer of the poll; the call gives null and the stored vote is there.
C14_Witness ==
  /\ last.op = "createVote"
  /\ last.vote = Null
  /\ AnswerOfPoll(last.answerId, last.pollId)
  /\ getUserVote(last.userId, last.pollId) # Null
  /\ getUserVote(last.userId, last.pollId).answer_id # last.answerId

\* C15: in every state every vote's answer is an answer of the vote's poll.
C15_VoteAnswerOfVotePoll ==
  \A v \in Votes : AnswerOfPoll(v.answer_id, v.poll_id)

\* C16: getVoteCounts(poll) has as keys exactly the answers with a vote on the
\* poll, each with its number of votes, none with 0, and its values add up to
\* the number of users who voted on the poll.
C16_VoteCountsExact ==
  last.op = "getVoteCounts"
  => LET m == last.result
         voted == {a \in AnswerIds : Tally(Votes, last.pollId, a) > 0}
         voters == {v.user_id : v \in {w \in Votes : w.poll_id = last.pollId}}
         RECURSIVE Sum(_)
         Sum(S) == IF S = {} THEN 0
                   ELSE LET a == CHOOSE x \in S : TRUE IN m[a] + Sum(S \ {a})
     IN /\ DOMAIN m = voted
        /\ \A a \in DOMAIN m : m[a] = Tally(Votes, last.pollId, a) /\ m[a] > 0
        /\ Sum(DOMAIN m) = Cardinality(voters)

\* C16 witness: the counts of a poll on which two users voted for different
\* answers, its other answers having no key.
C16_Witness ==
  /\ last.op = "getVoteCounts"
  /\ Cardinality(DOMAIN last.result) = 2
  /\ \E a \in AnswerIds : a \notin DOMAIN last.result

\* C17: getVoteCounts, getUserVote and getCrossReferencedVoteCounts change no
\* poll, no answer and no vote, and the call made again at once gives the same
\* result.
C17_ReadsArePure ==
  [][last'.op \in {"getVoteCounts", "getUserVote", "getCrossReferencedVoteCounts"}
     => /\ Polls' = Polls /\ Answers' = Answers /\ Votes' = Votes /\ Users' = Users
        /\ last'.op = "getVoteCounts"
             => last'.result = VoteCounts(Votes', last'.pollId)
        /\ last'.op = "getUserVote"
             => \/ last'.result = Null
                   /\ ~ \E v \in Votes' :
                          v.user_id = last'.userId /\ v.poll_id = last'.pollId
                \/ last'.result \in Votes'
                   /\ last'.result.user_id = last'.userId
                   /\ last'.result.poll_id = last'.pollId]_vars

\* C17 witness: getVoteCounts read a map that is not empty.
C17_Witness ==
  /\ last.op = "getVoteCounts"
  /\ DOMAIN last.result # {}
  /\ last.result = getVoteCounts(last.pollId)

\* Whether text q occurs in text t, letters compared without their case.
ContainsText(t, q) ==
  \E i \in 0..(Len(t) - Len(q)) : \A k \in 1..Len(q) : Fold(t[i + k]) = Fold(q[k])

\* Whether a poll row passes the text filter of a query string.
MatchesQuery(row, query) ==
  ("q" \in DOMAIN query /\ query.q # <<>>) => ContainsText(row.question, query.q)

\* The polls a candidate search must leave out: the base poll and the polls its
\* pk parameters name.
LeftOut(id, query) ==
  {id} \cup (IF "exclude" \in DOMAIN query THEN Range(query.exclude) ELSE {})

\* C18: an accepted candidate search for base poll A with exclusion list E
\* returns neither A nor a poll of E, whatever the text query, limit and offset,
\* and its total counts the polls outside {A} and E that match the query.
C18_CandidatesExcludeBaseAndListed ==
  (last.op = "GET /api/poll/:id/search" /\ last.resp.status = 200)
  => /\ \A i \in 1..Len(last.resp.polls) :
          /\ last.resp.polls[i].poll.id \notin LeftOut(last.id, last.query)
          /\ last.resp.polls[i].poll \in Range(Polls)
          /\ MatchesQuery(last.resp.polls[i].poll, last.query)
     /\ last.resp.pagination.total =
          Cardinality({row \in Range(Polls) :
                         /\ row.id \notin LeftOut(last.id, last.query)
                         /\ MatchesQuery(row, last.query)})

\* C18 witness: of three polls that match the text, the search for the first
\* with the second in its list returns the third alone.
C18_Witness ==
  /\ last.op = "GET /api/poll/:id/search"
  /\ last.resp.status = 200
  /\ Len(Polls) = 3
  /\ last.id = Polls[1].id
  /\ "exclude" \in DOMAIN last.query
  /\ last.query.exclude = <<Polls[2].id>>
  /\ "q" \notin DOMAIN last.query
  /\ Len(last.resp.polls) = 1
  /\ last.resp.polls[1].poll.id = Polls[3].id
  /\ last.resp.pagination.total = 1

\* Whether a text is an integer written out: digits, after a minus sign or not.
WellFormedInteger(s) ==
  LET d == IF s # <<>> /\ Head(s) = "-" THEN Tail(s) ELSE s
  IN d # <<>> /\ \A k \in 1..Len(d) : IsDigit(d[k])

\* Whether a page parameter is sent with a value (an empty value counts as
\* omitted).
Sent(query, name) == name \in DOMAIN query /\ query[name] # <<>>

\* Whether a feed request must be rejected: a limit or offset that is no
\* integer or is outside its range, or a sort that is no sort order.
FeedParametersInvalid(query) ==
  \/ /\ Sent(query, "limit")
     /\ \/ ~ WellFormedInteger(query.limit)
        \/ parseInt(query.limit).value < MinLimit
        \/ parseInt(query.limit).value > MaxLimit
  \/ /\ Sent(query, "offset")
     /\ \/ ~ WellFormedInteger(query.offset)
        \/ parseInt(query.offset).value < 0
  \/ "sort" \in DOMAIN query /\ query.sort \notin {"", "newest", "oldest"}

\* C19: the feed rejects with a 400 error and no polls every request whose
\* limit is outside 1..50, whose offset is negative, whose limit or offset is no
\* well-formed integer, or whose sort is neither 'newest' nor 'oldest'; without
\* these parameters it uses limit 10, offset 0 and the newest poll first.
C19_FeedRejectsInvalidParameters ==
  last.op = "GET /api/feed"
  => /\ FeedParametersInvalid(last.query)
          => /\ last.resp.status = 400
             /\ "polls" \notin DOMAIN last.resp
     /\ (~ FeedParametersInvalid(last.query) /\ ~ Sent(last.query, "limit")
           /\ ~ Sent(last.query, "offset"))
          => /\ last.resp.status = 200
             /\ last.resp.pagination.limit = DefaultLimit
             /\ last.resp.pagination.offset = DefaultOffset
             /\ ("sort" \notin DOMAIN last.query /\ "q" \notin DOMAIN last.query
                   /\ Len(Polls) > 0)
                  => \A p \in Range(Polls) :
                       p.created_at <= last.resp.polls[1].poll.created_at

\* The number of polls that pass the filters of a listing request.
MatchingPolls(op, id, query) ==
  Cardinality({row \in Range(Polls) :
                 /\ MatchesQuery(row, query)
                 /\ op = "GET /api/poll/:id/search" => row.id \notin LeftOut(id, query)})

\* C20: in every accepted feed or candidate-search response the total is the
\* number of polls that pass the filters, whatever limit and offset are, and
\* hasMore is true exactly when offset + limit < total: with limit 50 and
\* offset 0 it is true on 51 polls and false on 50.
C20_HasMoreExact ==
  (last.op \in {"GET /api/feed", "GET /api/poll/:id/search"} /\ last.resp.status = 200)
  => LET page == last.resp.pagination
         id == IF last.op = "GET /api/feed" THEN NoSuchId ELSE last.id
     IN /\ page.total = MatchingPolls(last.op, id, last.query)
        /\ page.limit = parseInt(IF Sent(last.query, "limit") THEN last.query.limit
                                 ELSE <<"1", "0">>).value
        /\ page.offset = parseInt(IF Sent(last.query, "offset") THEN last.query.offset
                                  ELSE <<"0">>).value
        /\ page.hasMore <=> page.offset + page.limit < page.total
        /\ (page.limit = MaxLimit /\ page.offset = 0 /\ page.total = MaxLimit + 1)
             => page.hasMore
        /\ (page.limit = MaxLimit /\ page.offset = 0 /\ page.total = MaxLimit)
             => ~ page.hasMore

\* C20 witness: the feed of 51 polls asked with limit 50 and offset 0 returns 50
\* polls and says there are more.
C20_Witness ==
  /\ last.op = "GET /api/feed"
  /\ last.resp.status = 200
  /\ last.resp.pagination.total = MaxLimit + 1
  /\ last.resp.pagination.limit = MaxLimit
  /\ last.resp.pagination.offset = 0
  /\ Len(last.resp.polls) = MaxLimit
  /\ last.resp.pagination.hasMore

\* The filters a listing call or a feed request supplies.
FiltersOf(call) ==
  IF call.op = "getPolls" THEN call.options
  ELSE [f \in {"authorId", "voterId"} \cap DOMAIN call.query |-> call.query[f]]
         @@ (IF "q" \in DOMAIN call.query THEN [query |-> call.query.q] ELSE <<>>)

\* The polls and the total of a listing call or of an accepted feed request.
ListingOf(call) ==
  IF call.op = "getPolls" THEN call.result
  ELSE [polls |-> call.resp.polls, totalCount |-> call.resp.pagination.total]

\* Whether a poll row passes the filters supplied.
PassesFilters(row, filters) ==
  /\ "query" \in DOMAIN filters => ContainsText(row.question, filters.query)
  /\ "authorId" \in DOMAIN filters => row.author_id = filters.authorId
  /\ "voterId" \in DOMAIN filters
       => \E v \in Votes : v.user_id = filters.voterId /\ v.poll_id = row.id

\* C21: a listing requested with authorId returns only polls of that author, a
\* listing requested with voterId only polls that user has voted on, each also
\* restricted by the text query when there is one, and totalCount is the number
\* of polls that pass all the filters supplied.
C21_ListingFilters ==
  (last.op = "getPolls" \/ (last.op = "GET /api/feed" /\ last.resp.status = 200))
  => /\ \A i \in 1..Len(ListingOf(last).polls) :
          /\ ListingOf(last).polls[i].poll \in Range(Polls)
          /\ PassesFilters(ListingOf(last).polls[i].poll, FiltersOf(last))
     /\ ListingOf(last).totalCount =
          Cardinality({row \in Range(Polls) : PassesFilters(row, FiltersOf(last))})

\* The polls a listing call, a candidate call or an accepted feed request
\* returned.
ListedPolls(call) ==
  IF call.op = "GET /api/feed" THEN call.resp.polls ELSE call.result.polls

\* Whether a call asked for the oldest poll first.
OldestFirst(call) ==
  \/ call.op = "getPolls" /\ "sortBy" \in DOMAIN call.options
       /\ call.options.sortBy = "oldest"
  \/ call.op = "GET /api/feed" /\ "sort" \in DOMAIN call.query
       /\ call.query.sort = "oldest"

\* The position of a poll in the Polls table.
RowOf(pollId) == CHOOSE k \in 1..Len(Polls) : Polls[k].id = pollId

LimitOf(call) ==
  IF "limit" \in DOMAIN call.options THEN call.options.limit ELSE DefaultLimit
OffsetOf(call) ==
  IF "offset" \in DOMAIN call.options THEN call.options.offset ELSE DefaultOffset

\* The ids of the polls of a page.
PageIds(polls) == [i \in 1..Len(polls) |-> polls[i].poll.id]

\* The ids of the pages of a getPolls call's filters and order at the offsets
\* 0, limit, 2 * limit, ... up to page k, one after the other.
RECURSIVE PagesUpTo(_, _)
PagesUpTo(call, k) ==
  IF k < 0 THEN <<>>
  ELSE PagesUpTo(call, k - 1)
         \o PageIds(getPolls([limit |-> LimitOf(call), offset |-> k * LimitOf(call)]
                               @@ call.options).polls)

\* C26: on a fixed store with fixed filters the page for (limit, offset) holds
\* min(limit, max(0, totalCount - offset)) polls, it is the part of the pages
\* laid end to end that starts after offset polls, and the pages at offsets 0,
\* limit, 2 * limit, ... hold every matching poll exactly once.
C26_PagesPartitionListing ==
  last.op = "getPolls"
  => LET total == last.result.totalCount
         limit == LimitOf(last)
         offset == OffsetOf(last)
         rest == IF total > offset THEN total - offset ELSE 0
         all == PagesUpTo(last, total \div limit)
         matching == {row.id : row \in {r \in Range(Polls) :
                                          PassesFilters(r, FiltersOf(last))}}
     IN /\ Len(last.result.polls) = (IF limit < rest THEN limit ELSE rest)
        /\ Len(all) = total
        /\ Range(all) = matching
        /\ Cardinality(matching) = total
        /\ \A i \in 1..Len(last.result.polls) :
             last.result.polls[i].poll.id = all[offset + i]

\* C26 witness: of four polls the page of three after the first two holds the
\* other two, which share their millisecond.
C26_Witness ==
  /\ last.op = "getPolls"
  /\ last.result.totalCount = 4
  /\ LimitOf(last) = 3
  /\ OffsetOf(last) = 2
  /\ Len(last.result.polls) = 2
  /\ last.result.polls[1].poll.created_at = last.result.polls[2].poll.created_at

OneUserPerEmail(users) ==
  \A u, w \in users : (u.email = w.email /\ u.email # NullText) => u = w

\* C24: after any sequence of Google logins there is at most one user per
\* email: a login with the email of an existing user returns that user's id
\* with the name of the profile and creates no user, and a login with a new
\* email creates exactly one user, with the email and the name of the profile.
C24_OneUserPerEmail ==
  [][/\ OneUserPerEmail(Users) => OneUserPerEmail(Users')
     /\ last'.op = "createOrUpdateUserFromGoogle" =>
          LET g == last'.googleInfo
          IN /\ OneUserPerEmail(Users')
             /\ last'.user.email = g.email
             /\ last'.user.name = g.name
             /\ last'.user \in Users'
             /\ IF \E u \in Users : u.email = g.email
                THEN \E u \in Users :
                       /\ u.email = g.email
                       /\ last'.user.id = u.id
                       /\ Users' = (Users \ {u}) \cup {last'.user}
                ELSE /\ last'.user.id \notin UserIds
                     /\ Users' = Users \cup {last'.user}]_vars

\* C24 witness: a login of a seeded user under a new name returns that user
\* renamed.
C24_Witness ==
  /\ last.op = "createOrUpdateUserFromGoogle"
  /\ last.user.id = 1
  /\ last.user.name = "N"
  /\ last.user \in Users
  /\ Cardinality({u \in Users : u.email = last.user.email}) = 1

\* The rows a step added to the migrations table.
NewRows == SubSeq(migrations', Len(migrations) + 1, Len(migrations'))

\* The ids of the migrations whose files are in the directory and that the
\* table does not hold.
PendingIds ==
  {MigrationOf(f).id : f \in {g \in files : FileMatches(g)}} \ getAppliedMigrations

\* C25: applyMigrations applies each pending migration exactly once, in
\* ascending order of the migration ids, and returns their number: a call with
\* nothing pending applies nothing and returns 0, and the migrations table
\* holds each applied id once.
C25_MigrationsOnceInOrder ==
  [][last'.op = "applyMigrations" =>
       /\ last'.error = ""
       /\ Len(migrations') >= Len(migrations)
       /\ SubSeq(migrations', 1, Len(migrations)) = migrations
       /\ {NewRows[i].id : i \in 1..Len(NewRows)} = PendingIds
       /\ Len(NewRows) = Cardinality(PendingIds)
       /\ last'.appliedCount = Cardinality(PendingIds)
       /\ \A i, j \in 1..Len(NewRows) : i < j => NewRows[i].id < NewRows[j].id
       /\ \A i, j \in 1..Len(migrations') :
            migrations'[i].id = migrations'[j].id => i = j]_vars

\* The pairs of a query whose pk and ak are both given and non-empty, as
\* <<poll id, answer id>>, in the order of their pk keys.
RECURSIVE KeptPairs(_)
KeptPairs(q) ==
  IF q = <<>> THEN <<>>
  ELSE IF Head(q).p \in {Undefined, EmptyId} \/ Head(q).a \in {Undefined, EmptyId}
       THEN KeptPairs(Tail(q))
       ELSE <<(<<Head(q).p, Head(q).a>>)>> \o KeptPairs(Tail(q))

\* C27: in a successful poll-detail response the crossReferences entries name,
\* by pollId and answerId, the pairs of the query in the order of their pk keys;
\* a dropped pair (one with a half missing or empty) is left out and the others
\* keep their order.
C27_EntriesInQueryOrder ==
  (last.op = "GET /api/poll/:id" /\ last.resp.status = 200)
  => [k \in 1..Len(Entries(last.resp)) |->
        <<last.resp.crossReferences[k].pollId,
          last.resp.crossReferences[k].answerId>>] = KeptPairs(last.query)

\* C27 witness: a response with two entries for different reference polls, so
\* that their order shows.
C27_Witness ==
  /\ last.op = "GET /api/poll/:id"
  /\ last.resp.status = 200
  /\ Len(last.query) = 2
  /\ Len(Entries(last.resp)) = 2
  /\ last.resp.crossReferences[1].pollId # last.resp.crossReferences[2].pollId

\* The poll-detail responses sent by the processes.
DetailResponses ==
  {procs[i].resp : i \in {j \in 1..MaxProcs :
                             /\ procs[j].pc = "done"
                             /\ procs[j].kind = "detail"
                             /\ procs[j].resp.status = 200}}

RECURSIVE CrossSum(_, _, _, _)
CrossSum(rows, b, R, a) ==
  IF rows = <<>> THEN 0
  ELSE CountOf(getCrossReferencedVoteCounts(b, R, Head(rows).id), a)
         + CrossSum(Tail(rows), b, R, a)

\* The users with a vote for answer a on poll b and a vote on poll R.
VotedBoth(b, a, R) ==
  {u \in UserIds :
     /\ \E v \in Votes : v.user_id = u /\ v.poll_id = b /\ v.answer_id = a
     /\ \E w \in Votes : w.user_id = u /\ w.poll_id = R}

\* C29: for a base poll b, a reference poll R and an answer a of b, the
\* cross-reference counts for a added up over the answers of R are the number of
\* users who voted a on b and voted on R; the cohorts of different answers of R
\* share no user, and the sum is at most getVoteCounts(b)[a].
C29_CrossSumsCountVotersOfBoth ==
  \A b \in PollIds, R \in PollIds :
    \A a \in {r.id : r \in Range(SelectRows(Answers, b))} :
      LET rows == SelectRows(Answers, R)
      IN /\ CrossSum(rows, b, R, a) = Cardinality(VotedBoth(b, a, R))
         /\ \A r1, r2 \in {r.id : r \in Range(rows)} :
              r1 # r2 => Cohort(b, a, R, r1) \cap Cohort(b, a, R, r2) = {}
         /\ CrossSum(rows, b, R, a) <= CountOf(getVoteCounts(b), a)

\* C30: a pair that names the base poll itself and one of its answers a is
\* accepted like any valid pair, and its entry's count map is exactly
\* {a: getVoteCounts(base)[a]} when a has votes and the empty map when it has
\* none.
C30_SelfReferenceIsOwnCount ==
  (last.op = "GET /api/poll/:id" /\ last.id \in PollIds)
  => /\ (\A k \in 1..Len(last.query) :
           Complete(last.query[k]) =>
             last.query[k].p = last.id /\ AnswerOfPoll(last.query[k].a, last.id))
        => last.resp.status = 200
     /\ last.resp.status = 200
        => \A k \in 1..Len(Entries(last.resp)) :
             LET e == last.resp.crossReferences[k]
                 counts == getVoteCounts(last.id)
             IN e.pollId = last.id
                => e.voteCounts = [a \in {e.answerId} \cap DOMAIN counts |-> counts[a]]

\* C30 witness: a response with an entry for the base poll itself and an answer
\* two users voted for.
C30_Witness ==
  /\ last.op = "GET /api/poll/:id"
  /\ last.resp.status = 200
  /\ \E k \in 1..Len(Entries(last.resp)) :
       /\ last.resp.crossReferences[k].pollId = last.id
       /\ DOMAIN last.resp.crossReferences[k].voteCounts # {}
       /\ \A a \in DOMAIN last.resp.crossReferences[k].voteCounts :
            last.resp.crossReferences[k].voteCounts[a] = 2

====
